---- MODULE Spec2Model ----
(***************************************************************************)
(* A model of the social-media analytics pipeline:                         *)
(*   data_loader.py  load_jsonl / _extract_post_fields / preprocess_data   *)
(*   app.py          apply_filters                                         *)
(*   analytics.py    the aggregation operations                            *)
(*                                                                         *)
(* Strings that the code inspects character by character (title, text,     *)
(* keyword) are sequences of one-character strings; strings that are only  *)
(* compared for equality (id, author, subreddit, platform) are TLA+        *)
(* strings.  A timestamp is a number of seconds since the epoch; the local *)
(* time zone of datetime.fromtimestamp is taken to be UTC.                 *)
(***************************************************************************)
EXTENDS Integers, Sequences, FiniteSets, TLC

VARIABLES
    file,      \* the input file: [exists, lines]
    pc,        \* position in load_and_preprocess_data
    raw,       \* the DataFrame load_jsonl returned: [rows, dtype]
    corpus,    \* the DataFrame preprocess_data returned (rows)
    loadErr,   \* the exception load_and_preprocess_data raised, or "none"
    data,      \* the corpus the dashboard works on
    fargs,     \* the arguments of the last apply_filters call
    filtered,  \* the filtered set apply_filters returned
    ferr,      \* the exception apply_filters raised, or "none"
    agg,       \* the last aggregation call: [op, args, err, out]
    sorts,     \* the orders sort_values gives on the filtered set (a sort is
               \* deterministic: the same input is put in the same order)
    run,       \* the current run of main: [pc, locals, network_stats, err]
    bot        \* the GeminiChatbot, the messages sent to the remote service and
               \* the last call

vars == <<file, pc, raw, corpus, loadErr, data, fargs, filtered, ferr, agg, sorts,
          run, bot>>

loadVars == <<file, pc, raw, corpus, loadErr>>
dashVars == <<data, fargs, filtered, ferr, agg, sorts>>
appVars == <<run, bot>>

(***************************************************************************)
(* Bounds of the model.                                                    *)
(***************************************************************************)
MaxLines == 3
MaxPosts == 2

(***************************************************************************)
(* Generic helpers on sequences.                                           *)
(***************************************************************************)
RECURSIVE SelectIdx(_, _, _)
\* the elements s[i] (i >= from) for which keep[i] holds, in order
SelectIdx(s, keep, from) ==
    IF from > Len(s) THEN <<>>
    ELSE (IF keep[from] THEN <<s[from]>> ELSE <<>>) \o SelectIdx(s, keep, from + 1)

Range(s) == {s[i] : i \in 1..Len(s)}

RECURSIVE SeqsUpTo(_, _)
\* all sequences over S of length at most n
SeqsUpTo(S, n) ==
    IF n = 0 THEN {<<>>}
    ELSE LET shorter == SeqsUpTo(S, n - 1)
         IN  shorter \cup {Append(s, x) : s \in {t \in shorter : Len(t) = n - 1}, x \in S}

(***************************************************************************)
(* Raw input.  A JSON value of a field is a small tagged record, one shape *)
(* per field so that values stay comparable:                               *)
(*   id                  [k \in {"absent","null","str"}, s]                *)
(*   created_utc,created [k \in {"absent","null","num","numstr","str"}, n] *)
(*   title, selftext     [k \in {"absent","str","num"}, cs]                *)
(*   author, subreddit   [k \in {"absent","null","str"}, s]                *)
(*   score, num_comments [k \in {"absent","num"}, n]                       *)
(* "absent" is a key the object does not have, "null" a JSON null,         *)
(* "numstr" a string holding a decimal number, "num" in a text field a     *)
(* JSON number where a string is expected.                                 *)
(***************************************************************************)
IdAbsent == [k |-> "absent", s |-> ""]
IdNull == [k |-> "null", s |-> ""]
IdStr(x) == [k |-> "str", s |-> x]

TsAbsent == [k |-> "absent", n |-> 0]
TsNull == [k |-> "null", n |-> 0]
TsNum(t) == [k |-> "num", n |-> t]
TsNumStr(t) == [k |-> "numstr", n |-> t]
TsBadStr == [k |-> "str", n |-> 0]

TxAbsent == [k |-> "absent", cs |-> <<>>]
TxStr(c) == [k |-> "str", cs |-> c]
TxNum == [k |-> "num", cs |-> <<>>]

\* the value None in a column of names: a value that no string of the inputs
\* equals
None == "<None>"

NmAbsent == [k |-> "absent", s |-> ""]
NmNull == [k |-> "null", s |-> None]
NmStr(x) == [k |-> "str", s |-> x]

IntAbsent == [k |-> "absent", n |-> 0]
IntNum(x) == [k |-> "num", n |-> x]

\* a JSON object with the fields the loader reads
RawRecord(id, utc, created, title, selftext, author, subreddit, score, ncomments) ==
    [id |-> id, created_utc |-> utc, created |-> created, title |-> title,
     selftext |-> selftext, author |-> author, subreddit |-> subreddit,
     score |-> score, num_comments |-> ncomments]

EmptyObject ==
    RawRecord(IdAbsent, TsAbsent, TsAbsent, TxAbsent, TxAbsent, NmAbsent, NmAbsent,
              IntAbsent, IntAbsent)

\* the object with the key "url" added
WithUrl(rec, u) ==
    [f \in (DOMAIN rec) \cup {"url"} |-> IF f = "url" THEN NmStr(u) ELSE rec[f]]

\* a JSON value that is not an object (a number, an array, null), as it may be
\* found under the "data" key
NotAMapping == [mapping |-> FALSE]

(***************************************************************************)
(* A line of the file:                                                     *)
(*   "malformed"  json.loads raises JSONDecodeError (also an empty line)   *)
(*   "nonobject"  a JSON value that is not an object (a number, an array)  *)
(*   "flat"       a JSON object holding the record's fields                *)
(*   "enveloped"  a JSON object with the record under the "data" key       *)
(***************************************************************************)
Line(kind, rec) == [kind |-> kind, rec |-> rec]
MalformedLine == Line("malformed", EmptyObject)
NonObjectLine == Line("nonobject", EmptyObject)

(***************************************************************************)
(* Time.  datetime.fromtimestamp(float(t)) of t seconds; the date, the     *)
(* hour and the weekday name are read off the datetime.                    *)
(***************************************************************************)
NoneDT == [null |-> TRUE, t |-> 0]
FromTimestamp(t) == [null |-> FALSE, t |-> t]

DateOf(dt) == dt.t \div 86400
HourOf(dt) == (dt.t % 86400) \div 3600

days_order ==
    <<"Monday", "Tuesday", "Wednesday", "Thursday", "Friday", "Saturday", "Sunday">>

\* 1 January 1970 (date 0) was a Thursday
DayName(dt) == days_order[((DateOf(dt) + 3) % 7) + 1]

(***************************************************************************)
(* Characters.                                                             *)
(***************************************************************************)
UpperLetters ==
    <<"A", "B", "C", "D", "E", "F", "G", "H", "I", "J", "K", "L", "M", "N",
    "O", "P", "Q", "R", "S", "T", "U", "V", "W", "X", "Y", "Z">>
LowerLetters ==
    <<"a", "b", "c", "d", "e", "f", "g", "h", "i", "j", "k", "l", "m", "n",
    "o", "p", "q", "r", "s", "t", "u", "v", "w", "x", "y", "z">>

\* str.lower() on one character (ASCII)
LowerChar(c) ==
    IF \E i \in 1..Len(UpperLetters) : UpperLetters[i] = c
    THEN LowerLetters[CHOOSE i \in 1..Len(UpperLetters) : UpperLetters[i] = c]
    ELSE c

Lower(cs) == [i \in 1..Len(cs) |-> LowerChar(cs[i])]

(***************************************************************************)
(* _extract_post_fields: the normalised post of a raw record, or           *)
(* [ok |-> FALSE] when the function returns None.                          *)
(***************************************************************************)
\* post.get('created_utc', post.get('created', None))
TimestampOf(rec) ==
    IF rec.created_utc.k # "absent" THEN rec.created_utc
    ELSE IF rec.created.k # "absent" THEN rec.created
    ELSE TsNull

\* Python truthiness of the timestamp value
Truthy(ts) ==
    CASE ts.k = "null" -> FALSE
      [] ts.k = "num" -> ts.n # 0
      [] OTHER -> TRUE

\* the created_at the normaliser stores
CreatedAt(rec) ==
    LET ts == TimestampOf(rec)
    IN  IF ~Truthy(ts) THEN NoneDT
        ELSE IF ts.k \in {"num", "numstr"} THEN FromTimestamp(ts.n)
        ELSE NoneDT   \* float() raised ValueError

\* title + ' ' + text raises TypeError unless both are strings
ConcatRaises(rec) == rec.title.k = "num" \/ rec.selftext.k = "num"

\* the exception the body of the try raises, or "none": post.get on a value
\* that is not a dict raises AttributeError
TryBodyRaises(rec) ==
    IF "mapping" \in DOMAIN rec THEN "AttributeError"
    ELSE IF ConcatRaises(rec) THEN "TypeError"
    ELSE "none"

\* post.get('url', '')
UrlOf(rec) == IF "url" \in DOMAIN rec THEN rec.url.s ELSE ""

\* mutant: post.get('id'), whose default is None
ExtractedPost_NoDefaultId(rec) ==
    [id |-> IF rec.id.k = "absent" THEN IdNull ELSE rec.id,
     title |-> rec.title.cs,
     text |-> rec.selftext.cs,
     author |-> IF rec.author.k = "absent" THEN "unknown" ELSE rec.author.s,
     platform |-> "reddit",
     subreddit |-> rec.subreddit.s,
     score |-> rec.score.n,
     num_comments |-> rec.num_comments.n,
     url |-> UrlOf(rec),
     created_at |-> CreatedAt(rec)]

\* the dict  extracted  (hashtags, domains and mentions, which no operation of
\* the dashboard reads, are left out)
ExtractedPost(rec) ==
    [id |-> IF rec.id.k = "absent" THEN IdStr("") ELSE rec.id,
     title |-> rec.title.cs,
     text |-> rec.selftext.cs,
     author |-> IF rec.author.k = "absent" THEN "unknown" ELSE rec.author.s,
     platform |-> "reddit",
     subreddit |-> rec.subreddit.s,
     score |-> rec.score.n,
     num_comments |-> rec.num_comments.n,
     url |-> UrlOf(rec),
     created_at |-> CreatedAt(rec)]

\* mutant: without the try around the body, its exception reaches the caller
extract_post_fields_NoTry(rec) ==
    IF TryBodyRaises(rec) # "none" THEN [ok |-> FALSE, raised |-> TryBodyRaises(rec)]
    ELSE [ok |-> TRUE, raised |-> "none", post |-> ExtractedPost(rec)]

\* the outcome of _extract_post_fields: a post (ok), or None; raised is the
\* exception that reaches the caller
extract_post_fields(rec) ==
    IF TryBodyRaises(rec) # "none" THEN [ok |-> FALSE, raised |-> "none"]
    ELSE [ok |-> TRUE, raised |-> "none", post |-> ExtractedPost(rec)]

(***************************************************************************)
(* load_jsonl.                                                             *)
(***************************************************************************)
\* the body of the per-line try: the posts a line appends (none or one)
LinePosts(ln) ==
    IF ln.kind \in {"malformed", "nonobject"} THEN <<>>
    ELSE LET e == extract_post_fields(ln.rec)
         IN  IF e.ok THEN <<e.post>> ELSE <<>>

RECURSIVE PostsOf(_)
\* the list  posts  after the loop over the lines
PostsOf(lines) ==
    IF lines = <<>> THEN <<>>
    ELSE LinePosts(Head(lines)) \o PostsOf(Tail(lines))

\* mutant: the duplicates are not removed
DropDuplicates_Skipped(rows) == rows

\* mutant: keep='last'
DropDuplicates_KeepLast(rows) ==
    SelectIdx(rows,
              [i \in 1..Len(rows) |->
                  \A j \in (i + 1)..Len(rows) : rows[j].id # rows[i].id],
              1)

\* df.drop_duplicates(subset=['id'], keep='first')
DropDuplicates(rows) ==
    SelectIdx(rows,
              [i \in 1..Len(rows) |-> \A j \in 1..(i - 1) : rows[j].id # rows[i].id],
              1)

\* the dtype pandas gives the created_at column of DataFrame(posts)
CreatedAtDtype(posts) ==
    IF posts = <<>> THEN "nocolumns"
    ELSE IF \E i \in 1..Len(posts) : ~posts[i].created_at.null THEN "datetime64"
    ELSE "object"

\* the outcome of load_jsonl(file): an exception, or the DataFrame
load_jsonl(f) ==
    IF ~f.exists THEN [err |-> "FileNotFoundError", rows |-> <<>>, dtype |-> "nocolumns"]
    ELSE LET posts == PostsOf(f.lines)
         IN  [err |-> "none",
              rows |-> IF posts = <<>> THEN <<>> ELSE DropDuplicates(posts),
              dtype |-> CreatedAtDtype(posts)]

(***************************************************************************)
(* preprocess_data.                                                        *)
(***************************************************************************)
\* mutant: the rows without a timestamp are kept
DropNa_Skipped(rows) == rows

\* processed_df.dropna(subset=['created_at'])
DropNa(rows) ==
    SelectIdx(rows, [i \in 1..Len(rows) |-> ~rows[i].created_at.null], 1)

CombinedText(title, text) == Lower(title \o <<" ">> \o text)

\* the derived columns added to one row
Derive(p) ==
    [id |-> p.id, title |-> p.title, text |-> p.text, author |-> p.author,
     platform |-> p.platform, subreddit |-> p.subreddit, score |-> p.score,
     num_comments |-> p.num_comments, url |-> p.url, created_at |-> p.created_at,
     date |-> DateOf(p.created_at), hour |-> HourOf(p.created_at),
     day_of_week |-> DayName(p.created_at),
     combined_text |-> CombinedText(p.title, p.text)]

\* the outcome of preprocess_data(df)
preprocess_data(df) ==
    IF df.dtype = "nocolumns" THEN [err |-> "KeyError", rows |-> <<>>]
    ELSE IF df.dtype = "object" THEN [err |-> "AttributeError", rows |-> <<>>]
    ELSE LET kept == DropNa(df.rows)
         IN  [err |-> "none", rows |-> [i \in 1..Len(kept) |-> Derive(kept[i])]]


(***************************************************************************)
(* The input files of the loader's specification: every sequence of at     *)
(* most MaxLines lines drawn from LoadLines, and the missing file.         *)
(***************************************************************************)
\* Monday 5 January 1970 01:00 and Tuesday 6 January 1970 02:00
T1 == 4 * 86400 + 3600
T2 == 5 * 86400 + 7200

LoadRecord(id, utc, created, title) ==
    RawRecord(id, utc, created, title, TxAbsent, NmStr("a"), NmStr("x"),
              IntNum(1), IntNum(1))

LoadLines ==
    { MalformedLine, NonObjectLine,
      Line("flat", LoadRecord(IdStr("p1"), TsNum(T1), TsAbsent, TxStr(<<"a">>))),
      Line("flat", LoadRecord(IdStr("p1"), TsAbsent, TsNum(T2), TxStr(<<"b">>))),
      Line("flat", LoadRecord(IdStr("p1"), TsAbsent, TsAbsent, TxStr(<<"c">>))),
      Line("flat", LoadRecord(IdStr("p1"), TsBadStr, TsAbsent, TxStr(<<"a">>))),
      Line("flat", LoadRecord(IdStr("p1"), TsNum(0), TsAbsent, TxStr(<<"a">>))),
      Line("flat", LoadRecord(IdStr("p1"), TsNum(T1), TsAbsent, TxNum)),
      Line("flat", LoadRecord(IdStr("p2"), TsNum(T1), TsAbsent, TxStr(<<"a">>))),
      Line("flat", LoadRecord(IdStr("p2"), TsNull, TsNum(T2), TxStr(<<"b">>))),
      Line("enveloped", LoadRecord(IdStr("p2"), TsNumStr(T2), TsAbsent, TxStr(<<"A">>))),
      Line("flat", RawRecord(IdAbsent, TsNum(T1), TsAbsent, TxAbsent, TxAbsent,
                             NmAbsent, NmAbsent, IntAbsent, IntAbsent)),
      Line("flat", WithUrl(LoadRecord(IdAbsent, TsAbsent, TsAbsent, TxStr(<<"b">>)), "u")),
      Line("enveloped", NotAMapping) }

MissingFile == [exists |-> FALSE, lines |-> <<>>]

LoadFiles ==
    {MissingFile} \cup {[exists |-> TRUE, lines |-> ls] : ls \in SeqsUpTo(LoadLines, MaxLines)}

NoDataFrame == [rows |-> <<>>, dtype |-> "nocolumns"]
NoCall == [op |-> "none", args |-> <<>>, err |-> "none", out |-> <<>>]
NoFilter == [keyword |-> <<>>, date_range |-> <<>>, platform |-> "", subreddit |-> ""]
NoSorts == [contributors |-> <<>>, authors |-> <<>>, subreddits |-> <<>>]
\* main has not run: no local name is bound
NoRun == [pc |-> "idle", locals |-> {}, network_stats |-> <<>>, err |-> "none"]
\* the result of the last call on the chatbot: [op, kind, raised]
NoReturn == [op |-> "none", kind |-> "none", raised |-> "none"]
\* no GeminiChatbot has been constructed.  model and chat_session hold the
\* number of the initialize call that created them, 0 for None; created is the
\* set of the initialize calls that succeeded, sent the sessions to which a
\* message was sent, in order
NoBot == [available |-> FALSE, model |-> 0, chat_session |-> 0, initialized |-> FALSE,
          calls |-> 0, created |-> {}, sent |-> <<>>, ret |-> NoReturn]

DashIdle ==
    /\ data = <<>>
    /\ fargs = NoFilter
    /\ filtered = <<>>
    /\ ferr = "none"
    /\ agg = NoCall
    /\ sorts = NoSorts
    /\ run = NoRun
    /\ bot = NoBot

(***************************************************************************)
(* load_and_preprocess_data(file): load_jsonl, then preprocess_data.       *)
(***************************************************************************)
Init ==
    /\ file \in LoadFiles
    /\ pc = "start"
    /\ raw = NoDataFrame
    /\ corpus = <<>>
    /\ loadErr = "none"
    /\ DashIdle

CallLoadJsonl ==
    /\ pc = "start"
    /\ LET r == load_jsonl(file)
       IN  IF r.err # "none"
           THEN /\ pc' = "raised"
                /\ loadErr' = r.err
                /\ raw' = raw
           ELSE /\ pc' = "loaded"
                /\ loadErr' = loadErr
                /\ raw' = [rows |-> r.rows, dtype |-> r.dtype]
    /\ UNCHANGED <<file, corpus>>
    /\ UNCHANGED appVars
    /\ UNCHANGED dashVars

CallPreprocessData ==
    /\ pc = "loaded"
    /\ LET r == preprocess_data(raw)
       IN  IF r.err # "none"
           THEN /\ pc' = "raised"
                /\ loadErr' = r.err
                /\ corpus' = corpus
           ELSE /\ pc' = "done"
                /\ loadErr' = loadErr
                /\ corpus' = r.rows
    /\ UNCHANGED <<file, raw>>
    /\ UNCHANGED appVars
    /\ UNCHANGED dashVars

Next == CallLoadJsonl \/ CallPreprocessData

Spec == Init /\ [][Next]_vars


(***************************************************************************)
(* Properties of the loader.                                               *)
(***************************************************************************)
\* the lines of the file that json.loads cannot parse
Malformed(lines) == {i \in 1..Len(lines) : lines[i].kind = "malformed"}

\* the lines of the file that give a post, and the post of such a line
Usable(lines) == {i \in 1..Len(lines) : LinePosts(lines[i]) # <<>>}
PostOfLine(lines, i) == LinePosts(lines[i])[1]

\* the rows of a DataFrame that carry the id
RowsWithId(rows, id) == {k \in 1..Len(rows) : rows[k].id = id}

\* C1: for every existing file of N lines of which K are malformed, the load
\* completes without raising and returns at most N-K records.
C1_LoadNeverAborts ==
    file.exists =>
        /\ pc # "raised"
        /\ pc = "done" =>
              Len(corpus) <= Len(file.lines) - Cardinality(Malformed(file.lines))

\* C2: no two posts of the returned corpus have the same id.
C2_UniqueIds ==
    pc = "done" =>
        \A i, j \in 1..Len(corpus) : i # j => corpus[i].id # corpus[j].id

\* a corpus of two posts was returned for a file that repeats an id
C2_Witness ==
    /\ pc = "done"
    /\ Len(corpus) >= 2
    /\ \E i, j \in Usable(file.lines) :
          /\ i < j
          /\ PostOfLine(file.lines, i).id = PostOfLine(file.lines, j).id
          /\ ~PostOfLine(file.lines, i).created_at.null
          /\ ~PostOfLine(file.lines, j).created_at.null

\* the first record of the file that carries the id
FirstWithId(lines, id) ==
    LET first == CHOOSE i \in Usable(lines) :
                    /\ PostOfLine(lines, i).id = id
                    /\ \A j \in Usable(lines) :
                          PostOfLine(lines, j).id = id => i <= j
    IN  PostOfLine(lines, first)

\* the ids that two records of the file share
RepeatedIds(lines) ==
    {PostOfLine(lines, i).id : i \in {a \in Usable(lines) :
        \E b \in Usable(lines) :
            a # b /\ PostOfLine(lines, a).id = PostOfLine(lines, b).id}}

\* C3 as claimed: whenever two records of the file have the same id, the corpus
\* holds exactly one record with that id, the first in file order.
C3_ExactlyOneFirst ==
    pc = "done" =>
        \A id \in RepeatedIds(file.lines) :
            /\ Cardinality(RowsWithId(corpus, id)) = 1
            /\ \A k \in RowsWithId(corpus, id) :
                  corpus[k] = Derive(FirstWithId(file.lines, id))

\* C3 as amended: the corpus holds at most one record with a repeated id; it
\* holds the first record in file order when that one has a timestamp, and no
\* record with the id otherwise.
C3_FirstOrNone ==
    pc = "done" =>
        \A id \in RepeatedIds(file.lines) :
            LET first == FirstWithId(file.lines, id)
            IN  IF first.created_at.null
                THEN RowsWithId(corpus, id) = {}
                ELSE /\ Cardinality(RowsWithId(corpus, id)) = 1
                     /\ \A k \in RowsWithId(corpus, id) : corpus[k] = Derive(first)

\* an id is repeated by two different records and the corpus holds the first
C3_Witness ==
    /\ pc = "done"
    /\ \E i, j \in Usable(file.lines) :
          /\ i < j
          /\ PostOfLine(file.lines, i).id = PostOfLine(file.lines, j).id
          /\ PostOfLine(file.lines, i) # PostOfLine(file.lines, j)
          /\ ~PostOfLine(file.lines, j).created_at.null
          /\ \E k \in 1..Len(corpus) : corpus[k] = Derive(PostOfLine(file.lines, i))

\* C4: every post of the corpus has a created_at, and a record whose timestamp
\* is missing or unparsable is not in the corpus.
C4_CreatedAtNonNull ==
    pc = "done" =>
        /\ \A k \in 1..Len(corpus) : ~corpus[k].created_at.null
        /\ \A i \in Usable(file.lines) :
              PostOfLine(file.lines, i).created_at.null =>
                  \A k \in 1..Len(corpus) :
                      corpus[k] # Derive(PostOfLine(file.lines, i))

\* a corpus was returned for a file that holds a record without a timestamp
C4_Witness ==
    /\ pc = "done"
    /\ corpus # <<>>
    /\ \E i \in Usable(file.lines) : PostOfLine(file.lines, i).created_at.null

\* C5: a missing file makes the load raise FileNotFoundError and return no
\* corpus, and nothing else makes the load fail.
C5_OnlyMissingFileFails ==
    /\ (~file.exists /\ pc # "start") =>
          (pc = "raised" /\ loadErr = "FileNotFoundError" /\ corpus = <<>>)
    /\ pc = "raised" => ~file.exists


(***************************************************************************)
(* Series.str.contains(pat, na=False): pandas' default is regex=True, so   *)
(* the pattern is compiled by re and searched in the text.  The pattern    *)
(* language modelled: a literal character, "." (any character), "*" (the   *)
(* preceding item zero or more times) and "(" (opens a group; the          *)
(* alphabet has no ")", so a pattern with "(" does not compile).           *)
(***************************************************************************)
\* re.compile(pat) succeeds
ReCompiles(pat) ==
    /\ \A i \in 1..Len(pat) : pat[i] # "("
    /\ \A i \in 1..Len(pat) : pat[i] = "*" => (i > 1 /\ pat[i - 1] # "*")

ReAtomMatches(a, c) == a = "." \/ a = c

RECURSIVE ReMatchHere(_, _, _, _)
\* pat[k..] matches a prefix of text[i..]
ReMatchHere(pat, k, text, i) ==
    IF k > Len(pat) THEN TRUE
    ELSE IF k < Len(pat) /\ pat[k + 1] = "*"
    THEN \E n \in 0..(Len(text) - i + 1) :
            /\ \A j \in i..(i + n - 1) : ReAtomMatches(pat[k], text[j])
            /\ ReMatchHere(pat, k + 2, text, i + n)
    ELSE /\ i <= Len(text)
         /\ ReAtomMatches(pat[k], text[i])
         /\ ReMatchHere(pat, k + 1, text, i + 1)

\* re.search(pat, text) finds a match
ReSearch(pat, text) == \E i \in 1..(Len(text) + 1) : ReMatchHere(pat, 1, text, i)

\* pat occurs in text as a contiguous run of characters
IsSubstring(text, pat) ==
    \E i \in 0..(Len(text) - Len(pat)) : SubSeq(text, i + 1, i + Len(pat)) = pat

\* text.str.contains(pat) for one text, given that pat compiles
StrContains(text, pat) == ReSearch(pat, text)

(***************************************************************************)
(* apply_filters(data, keyword_filter, date_range, platform_filter,        *)
(* subreddit_filter).  A keyword of None is the empty keyword; a           *)
(* date_range of None is the empty tuple; a platform or subreddit of None  *)
(* is the empty string.                                                    *)
(***************************************************************************)
FilterArgs(kw, dr, pf, sf) ==
    [keyword |-> kw, date_range |-> dr, platform |-> pf, subreddit |-> sf]

KeywordActive(a) == a.keyword # <<>>
DateActive(a) == Len(a.date_range) = 2
PlatformActive(a) == a.platform # "" /\ a.platform # "All"
SubredditActive(a) == a.subreddit # "" /\ a.subreddit # "All"

\* mutant: the date mask is applied to every non-empty range, from its first
\* to its last date
PassesFilters_AnyRange(p, a) ==
    /\ KeywordActive(a) => StrContains(p.combined_text, Lower(a.keyword))
    /\ Len(a.date_range) >= 1 =>
          (/\ DateOf(p.created_at) >= a.date_range[1]
           /\ DateOf(p.created_at) <= a.date_range[Len(a.date_range)])
    /\ PlatformActive(a) => p.platform = a.platform
    /\ SubredditActive(a) => p.subreddit = a.subreddit

\* the row passes the four masks, each applied only when its criterion is active
PassesFilters(p, a) ==
    /\ KeywordActive(a) => StrContains(p.combined_text, Lower(a.keyword))
    /\ DateActive(a) =>
          (DateOf(p.created_at) >= a.date_range[1] /\ DateOf(p.created_at) <= a.date_range[2])
    /\ PlatformActive(a) => p.platform = a.platform
    /\ SubredditActive(a) => p.subreddit = a.subreddit

\* the outcome of apply_filters: re.error from the keyword mask, or the rows
apply_filters(rows, a) ==
    IF KeywordActive(a) /\ ~ReCompiles(Lower(a.keyword))
    THEN [err |-> "re.error", rows |-> <<>>]
    ELSE [err |-> "none",
          rows |-> SelectIdx(rows, [i \in 1..Len(rows) |-> PassesFilters(rows[i], a)], 1)]


(***************************************************************************)
(* analytics.py: the aggregation operations.  A DataFrame result is        *)
(* [columns, rows], a dict result a record.  A mean is the fraction        *)
(* [num, den]; a percentage rounded to 2 decimals is held in hundredths.   *)
(* Every row of a filtered set is a row of the corpus, whose created_at is *)
(* never null, so the  created_at.isna().all()  branches are not taken and *)
(* are left out.  The time bucket is the default, freq = 'D'.              *)
(***************************************************************************)
DataFrame(columns, rows) == [columns |-> columns, rows |-> rows]

RECURSIVE SumOver(_, _)
\* the sum of f[i] over the finite set of indices S
SumOver(f, S) ==
    IF S = {} THEN 0
    ELSE LET i == CHOOSE x \in S : TRUE
         IN  f[i] + SumOver(f, S \ {i})

Min(S) == CHOOSE x \in S : \A y \in S : x <= y
Max(S) == CHOOSE x \in S : \A y \in S : x >= y

\* filtered_data.empty
IsEmpty(F) == F = <<>>

\* mutant: every post counts as an author of its own (no nunique)
get_summary_stats_PostsAsAuthors(F) ==
    IF IsEmpty(F)
    THEN [total_posts |-> 0, unique_authors |-> 0, platforms |-> 0,
          date_range |-> [kind |-> "No data", lo |-> 0, hi |-> 0],
          avg_score |-> [num |-> 0, den |-> 1], total_comments |-> 0]
    ELSE LET idx == 1..Len(F)
         IN  [total_posts |-> Len(F),
              unique_authors |-> Len(F),
              platforms |-> Cardinality({F[i].platform : i \in idx}),
              avg_score |-> [num |-> SumOver([i \in idx |-> F[i].score], idx),
                             den |-> Len(F)],
              total_comments |-> SumOver([i \in idx |-> F[i].num_comments], idx),
              date_range |-> [kind |-> "range",
                              lo |-> Min({DateOf(F[i].created_at) : i \in idx}),
                              hi |-> Max({DateOf(F[i].created_at) : i \in idx})]]

\* get_summary_stats
get_summary_stats(F) ==
    IF IsEmpty(F)
    THEN [total_posts |-> 0, unique_authors |-> 0, platforms |-> 0,
          date_range |-> [kind |-> "No data", lo |-> 0, hi |-> 0],
          avg_score |-> [num |-> 0, den |-> 1], total_comments |-> 0]
    ELSE LET idx == 1..Len(F)
         IN  [total_posts |-> Len(F),
              unique_authors |-> Cardinality({F[i].author : i \in idx}),
              platforms |-> Cardinality({F[i].platform : i \in idx}),
              avg_score |-> [num |-> SumOver([i \in idx |-> F[i].score], idx),
                             den |-> Len(F)],
              total_comments |-> SumOver([i \in idx |-> F[i].num_comments], idx),
              date_range |-> [kind |-> "range",
                              lo |-> Min({DateOf(F[i].created_at) : i \in idx}),
                              hi |-> Max({DateOf(F[i].created_at) : i \in idx})]]

\* groupby(pd.Grouper(key='created_at', freq='D')).size(): one bin per calendar
\* day from the first day with a post to the last, in time order
DailyBins(F) ==
    LET idx == 1..Len(F)
        lo == Min({DateOf(F[i].created_at) : i \in idx})
        hi == Max({DateOf(F[i].created_at) : i \in idx})
    IN  [b \in 1..(hi - lo + 1) |->
            [day |-> lo + b - 1,
             size |-> Cardinality({i \in idx : DateOf(F[i].created_at) = lo + b - 1})]]

\* get_time_series_data (freq = 'D')
get_time_series_data(F) ==
    IF IsEmpty(F) THEN DataFrame(<<"date", "post_count">>, <<>>)
    ELSE LET bins == DailyBins(F)
         IN  DataFrame(<<"date", "post_count">>,
                       [b \in 1..Len(bins) |->
                           [date |-> bins[b].day, post_count |-> bins[b].size]])

\* the rows of F whose combined_text contains the keyword
KeywordPosts(F, keyword) ==
    SelectIdx(F, [i \in 1..Len(F) |-> StrContains(F[i].combined_text, Lower(keyword))], 1)

\* the frame appended to  results  for one keyword (no frame when nothing matches)
KeywordFrame(F, keyword) ==
    LET posts == KeywordPosts(F, keyword)
    IN  IF IsEmpty(posts) THEN <<>>
        ELSE LET bins == DailyBins(posts)
             IN  [b \in 1..Len(bins) |->
                     [created_at |-> bins[b].day, count |-> bins[b].size,
                      keyword |-> keyword]]

RECURSIVE KeywordFrames(_, _)
\* pd.concat(results): the frames of the keywords, in the order of the list
KeywordFrames(F, keywords) ==
    IF keywords = <<>> THEN <<>>
    ELSE KeywordFrame(F, Head(keywords)) \o KeywordFrames(F, Tail(keywords))

\* get_keyword_time_series (freq = 'D'): the outcome, an exception or the frame
get_keyword_time_series(F, keywords) ==
    IF IsEmpty(F) \/ keywords = <<>>
    THEN [err |-> "none", out |-> DataFrame(<<>>, <<>>)]
    ELSE IF \E k \in 1..Len(keywords) : ~ReCompiles(Lower(keywords[k]))
    THEN [err |-> "re.error", out |-> DataFrame(<<>>, <<>>)]
    ELSE [err |-> "none",
          out |-> DataFrame(<<"created_at", "count", "keyword">>,
                            KeywordFrames(F, keywords))]

\* the strings used as group keys, in Python's string order
SortedNames == <<"", "a", "b", "unknown", "x", "y">>
NameRank(n) == CHOOSE i \in 1..Len(SortedNames) : SortedNames[i] = n

RECURSIVE SortedByRank(_)
\* the names of the set in increasing order
SortedByRank(S) ==
    IF S = {} THEN <<>>
    ELSE LET first == CHOOSE n \in S : \A m \in S : NameRank(n) <= NameRank(m)
         IN  <<first>> \o SortedByRank(S \ {first})

\* round(n / d, 0) with ties to even, as numpy rounds
RoundHalfEven(n, d) ==
    LET q == n \div d
        r == n % d
    IN  IF 2 * r < d THEN q
        ELSE IF 2 * r > d THEN q + 1
        ELSE IF q % 2 = 0 THEN q ELSE q + 1

\* groupby('author').agg(...) with the percentage column: one row per author,
\* in the order of the sorted group keys
AuthorCounts(F) ==
    LET idx == 1..Len(F)
        authors == SortedByRank({F[i].author : i \in idx})
    IN  [a \in 1..Len(authors) |->
            LET mine == {i \in idx : F[i].author = authors[a]}
                count == Cardinality({i \in mine : F[i].id.k # "null"})
            IN  [author |-> authors[a],
                 post_count |-> count,
                 avg_score |-> [num |-> SumOver([i \in idx |-> F[i].score], mine),
                                den |-> Cardinality(mine)],
                 total_comments |-> SumOver([i \in idx |-> F[i].num_comments], mine),
                 percentage |-> RoundHalfEven(count * 10000, Len(F))]]

\* the orders sort_values('post_count', ascending=False) may give: the rows by
\* non-increasing post_count, rows with equal counts in any order
SortOrders(rows) ==
    {o \in [1..Len(rows) -> 1..Len(rows)] :
        /\ \A i, j \in 1..Len(rows) : i # j => o[i] # o[j]
        /\ \A i, j \in 1..Len(rows) :
              i < j => rows[o[i]].post_count >= rows[o[j]].post_count}

\* groupby(col).size(): one row per value of the column, in the order of the
\* sorted values
GroupSizes(F, col) ==
    LET keys == SortedByRank({F[i][col] : i \in 1..Len(F)} \ {None})
    IN  [k \in 1..Len(keys) |->
            [name |-> keys[k],
             post_count |-> Cardinality({i \in 1..Len(F) : F[i][col] = keys[k]})]]

\* the orders the sorts of get_top_contributors (contributors) and of
\* build_top_author_subreddit_network (authors, subreddits) may give on the
\* filtered set F; only the sorts named in  used  are followed
SortsOf(F, used) ==
    {[contributors |-> c, authors |-> a, subreddits |-> s] :
        c \in IF "contributors" \in used THEN SortOrders(AuthorCounts(F)) ELSE {<<>>},
        a \in IF "authors" \in used THEN SortOrders(GroupSizes(F, "author")) ELSE {<<>>},
        s \in IF "subreddits" \in used
              THEN SortOrders(GroupSizes(F, "subreddit")) ELSE {<<>>}}

\* .head(n)
HeadN(rows, n) == SubSeq(rows, 1, IF n < Len(rows) THEN n ELSE Len(rows))

\* mutant: the rows are sorted by increasing post_count
get_top_contributors_Ascending(F, top_n, order) ==
    IF IsEmpty(F) THEN DataFrame(<<"author", "post_count", "percentage">>, <<>>)
    ELSE LET counts == AuthorCounts(F)
         IN  DataFrame(<<"author", "post_count", "avg_score", "total_comments",
                         "percentage">>,
                       HeadN([i \in 1..Len(counts) |-> counts[order[Len(counts) + 1 - i]]],
                             top_n))

\* get_top_contributors, with the order the sort produced
get_top_contributors(F, top_n, order) ==
    IF IsEmpty(F) THEN DataFrame(<<"author", "post_count", "percentage">>, <<>>)
    ELSE LET counts == AuthorCounts(F)
         IN  DataFrame(<<"author", "post_count", "avg_score", "total_comments",
                         "percentage">>,
                       HeadN([i \in 1..Len(counts) |-> counts[order[i]]], top_n))

\* mutant: only the weekdays that have a post are emitted (no zero-fill)
get_weekly_posting_rhythm_NoZeroFill(F) ==
    IF IsEmpty(F) THEN DataFrame(<<"day_of_week", "post_count">>, <<>>)
    ELSE LET all == [d \in 1..Len(days_order) |->
                        [day_of_week |-> days_order[d],
                         post_count |->
                             Cardinality({i \in 1..Len(F) :
                                 DayName(F[i].created_at) = days_order[d]})]]
         IN  DataFrame(<<"day_of_week", "post_count">>,
                       SelectIdx(all, [d \in 1..Len(all) |-> all[d].post_count > 0], 1))

\* get_weekly_posting_rhythm
get_weekly_posting_rhythm(F) ==
    IF IsEmpty(F) THEN DataFrame(<<"day_of_week", "post_count">>, <<>>)
    ELSE DataFrame(<<"day_of_week", "post_count">>,
                   [d \in 1..Len(days_order) |->
                       [day_of_week |-> days_order[d],
                        post_count |->
                            Cardinality({i \in 1..Len(F) :
                                DayName(F[i].created_at) = days_order[d]})]])


(***************************************************************************)
(* The dashboard's specification: a corpus loaded from a file of at most   *)
(* MaxPosts records drawn from DashLines, one apply_filters call on it,    *)
(* and aggregation calls on the filtered set.                              *)
(***************************************************************************)
\* Monday 5 January 21:00 and Wednesday 7 January 02:00
T1Late == 4 * 86400 + 21 * 3600
T3 == 6 * 86400 + 7200

DashLines ==
    { Line("flat", RawRecord(IdStr("p1"), TsNum(T1), TsAbsent, TxStr(<<"a", "b">>),
                             TxAbsent, NmStr("a"), NmStr("x"), IntNum(2), IntNum(1))),
      Line("flat", RawRecord(IdStr("p2"), TsNum(T1Late), TsAbsent, TxStr(<<"B">>),
                             TxStr(<<"a">>), NmStr("a"), NmStr("y"), IntNum(1), IntNum(3))),
      Line("flat", RawRecord(IdStr("p3"), TsAbsent, TsNum(T3), TxStr(<<"a", ".">>),
                             TxAbsent, NmStr("b"), NmStr("x"), IntNum(-1), IntNum(0))),
      Line("flat", RawRecord(IdStr("p4"), TsNum(T2), TsAbsent, TxStr(<<"c">>),
                             TxAbsent, NmAbsent, NmAbsent, IntAbsent, IntAbsent)),
      Line("enveloped", RawRecord(IdNull, TsNum(T2), TsAbsent, TxStr(<<"A", "b">>),
                             TxAbsent, NmStr("b"), NmStr("y"), IntNum(3), IntNum(2))) }

DashFiles == {[exists |-> TRUE, lines |-> ls] : ls \in SeqsUpTo(DashLines, MaxPosts)}

KeywordSamples == {<<>>, <<"a">>, <<"A", "b">>, <<".">>, <<"c", "*">>, <<"(">>}
DateRangeSamples == {<<>>, <<4>>, <<4, 4>>, <<4, 5>>, <<5, 6>>, <<6, 4>>, <<4, 4, 4>>}
PlatformSamples == {"", "All", "reddit", "twitter"}
SubredditSamples == {"", "All", "x", "y"}

\* the filter specifications tried: each criterion alone, and combinations
FilterSamples ==
    {FilterArgs(k, <<>>, "All", "All") : k \in KeywordSamples}
    \cup {FilterArgs(<<>>, d, "All", "All") : d \in DateRangeSamples}
    \cup {FilterArgs(<<>>, <<>>, p, s) : p \in PlatformSamples, s \in SubredditSamples}
    \cup {FilterArgs(k, d, p, s) : k \in {<<"a">>, <<".">>}, d \in {<<4, 5>>, <<5>>},
                                   p \in {"", "reddit"}, s \in {"All", "x"}}

TopNSamples == {1, 2, 10}
KeywordListSamples ==
    {<<>>, <<<<"a">>>>, <<<<"z">>>>, <<<<"B">>, <<"c">>>>, <<<<"a">>, <<"(">>>>, <<<<".">>>>}

Call(op, top_n, keywords, err, out) ==
    [op |-> op, args |-> [top_n |-> top_n, keywords |-> keywords], err |-> err,
     out |-> out]

InitDash ==
    /\ file \in DashFiles
    /\ load_jsonl(file).err = "none"
    /\ raw = [rows |-> load_jsonl(file).rows, dtype |-> load_jsonl(file).dtype]
    /\ preprocess_data(raw).err = "none"
    /\ corpus = preprocess_data(raw).rows
    /\ loadErr = "none"
    /\ pc = "done"
    /\ data = corpus
    /\ fargs = NoFilter
    /\ filtered = <<>>
    /\ ferr = "none"
    /\ agg = NoCall
    /\ sorts = NoSorts
    /\ run = NoRun
    /\ bot = NoBot

\* mutant: the filter is applied to the corpus in place
ApplyFiltersFrom_InPlace(samples, used) ==
    /\ pc = "done"
    /\ \E a \in samples :
          LET r == apply_filters(data, a)
          IN  /\ fargs' = a
              /\ ferr' = r.err
              /\ filtered' = r.rows
              /\ data' = r.rows
              /\ sorts' \in SortsOf(r.rows, used)
              /\ pc' = IF r.err = "none" THEN "filtered" ELSE "filter_raised"
    /\ UNCHANGED <<file, raw, corpus, loadErr, agg>>
    /\ UNCHANGED appVars

\* one call of apply_filters on the corpus, its arguments drawn from samples;
\* used  names the sorts that the calls on the filtered set will perform
ApplyFiltersFrom(samples, used) ==
    /\ pc = "done"
    /\ \E a \in samples :
          LET r == apply_filters(data, a)
          IN  /\ fargs' = a
              /\ ferr' = r.err
              /\ filtered' = r.rows
              /\ sorts' \in SortsOf(r.rows, used)
              /\ pc' = IF r.err = "none" THEN "filtered" ELSE "filter_raised"
    /\ UNCHANGED <<file, raw, corpus, loadErr, data, agg>>
    /\ UNCHANGED appVars

CallApplyFilters == ApplyFiltersFrom(FilterSamples, {"contributors"})

CallGetSummaryStats ==
    /\ pc = "filtered"
    /\ agg' = Call("get_summary_stats", 0, <<>>, "none", get_summary_stats(filtered))
    /\ UNCHANGED <<file, pc, raw, corpus, loadErr, data, fargs, filtered, ferr, sorts>>
    /\ UNCHANGED appVars

CallGetTimeSeriesData ==
    /\ pc = "filtered"
    /\ agg' = Call("get_time_series_data", 0, <<>>, "none", get_time_series_data(filtered))
    /\ UNCHANGED <<file, pc, raw, corpus, loadErr, data, fargs, filtered, ferr, sorts>>
    /\ UNCHANGED appVars

CallGetKeywordTimeSeries ==
    /\ pc = "filtered"
    /\ \E ks \in KeywordListSamples :
          LET r == get_keyword_time_series(filtered, ks)
          IN  agg' = Call("get_keyword_time_series", 0, ks, r.err, r.out)
    /\ UNCHANGED <<file, pc, raw, corpus, loadErr, data, fargs, filtered, ferr, sorts>>
    /\ UNCHANGED appVars

CallGetTopContributors ==
    /\ pc = "filtered"
    /\ \E n \in TopNSamples :
          agg' = Call("get_top_contributors", n, <<>>, "none",
                      get_top_contributors(filtered, n, sorts.contributors))
    /\ UNCHANGED <<file, pc, raw, corpus, loadErr, data, fargs, filtered, ferr, sorts>>
    /\ UNCHANGED appVars

CallGetWeeklyPostingRhythm ==
    /\ pc = "filtered"
    /\ agg' = Call("get_weekly_posting_rhythm", 0, <<>>, "none",
                   get_weekly_posting_rhythm(filtered))
    /\ UNCHANGED <<file, pc, raw, corpus, loadErr, data, fargs, filtered, ferr, sorts>>
    /\ UNCHANGED appVars

NextDash ==
    \/ CallApplyFilters
    \/ CallGetSummaryStats
    \/ CallGetTimeSeriesData
    \/ CallGetKeywordTimeSeries
    \/ CallGetTopContributors
    \/ CallGetWeeklyPostingRhythm

SpecDash == InitDash /\ [][NextDash]_vars


(***************************************************************************)
(* Properties of the filter and of the aggregations.                       *)
(***************************************************************************)
\* the filter as the specification describes it: the keyword criterion is a
\* case-insensitive literal substring test
ClaimedPasses(p, a) ==
    /\ KeywordActive(a) => IsSubstring(p.combined_text, Lower(a.keyword))
    /\ DateActive(a) =>
          (DateOf(p.created_at) >= a.date_range[1] /\ DateOf(p.created_at) <= a.date_range[2])
    /\ PlatformActive(a) => p.platform = a.platform
    /\ SubredditActive(a) => p.subreddit = a.subreddit

\* C6: apply_filters returns exactly the posts that satisfy every active
\* criterion (keyword contained in combined_text, date within the inclusive
\* range, platform equal, community equal), in their original order.
C6_FilterExact ==
    pc = "filtered" =>
        filtered = SelectIdx(data, [i \in 1..Len(data) |-> ClaimedPasses(data[i], fargs)], 1)

\* C7: with only the keyword criterion active, a post is kept if and only if
\* the lower-cased keyword occurs in its combined_text as a contiguous substring.
C7_KeywordLiteral ==
    (/\ pc = "filtered"
     /\ KeywordActive(fargs)
     /\ ~DateActive(fargs) /\ ~PlatformActive(fargs) /\ ~SubredditActive(fargs)) =>
        \A i \in 1..Len(data) :
            (data[i] \in Range(filtered)) <=>
                IsSubstring(data[i].combined_text, Lower(fargs.keyword))

\* C8: no call of apply_filters or of an aggregation raises an exception.
C8_NoRaise == pc # "filter_raised" /\ ferr = "none" /\ agg.err = "none"

\* C9: on an empty filtered set an aggregation returns no rows (zero statistics)
\* under the same column (field) names as it returns for a non-empty set, here
\* the whole corpus.
C9_EmptySameShape ==
    (pc = "filtered" /\ IsEmpty(filtered) /\ agg.err = "none") =>
        /\ agg.op = "get_summary_stats" =>
              /\ DOMAIN agg.out = DOMAIN get_summary_stats(data)
              /\ agg.out.total_posts = 0 /\ agg.out.unique_authors = 0
              /\ agg.out.platforms = 0 /\ agg.out.total_comments = 0
              /\ agg.out.avg_score.num = 0
        /\ agg.op = "get_time_series_data" =>
              /\ agg.out.columns = get_time_series_data(data).columns
              /\ agg.out.rows = <<>>
        /\ agg.op = "get_keyword_time_series" =>
              /\ agg.out.columns =
                    get_keyword_time_series(data, agg.args.keywords).out.columns
              /\ agg.out.rows = <<>>
        /\ agg.op = "get_top_contributors" =>
              /\ agg.out.columns =
                    get_top_contributors(data, agg.args.top_n,
                        CHOOSE o \in SortOrders(AuthorCounts(data)) : TRUE).columns
              /\ agg.out.rows = <<>>
        /\ agg.op = "get_weekly_posting_rhythm" =>
              agg.out.columns = get_weekly_posting_rhythm(data).columns

WeekdayNames ==
    <<"Monday", "Tuesday", "Wednesday", "Thursday", "Friday", "Saturday", "Sunday">>

\* the weekly rhythm has the 7 weekday rows, zero for absent days, summing to len(F)
SevenRows(out, F) ==
    /\ Len(out.rows) = 7
    /\ \A d \in 1..7 :
          /\ out.rows[d].day_of_week = WeekdayNames[d]
          /\ (\A i \in 1..Len(F) : F[i].day_of_week # WeekdayNames[d]) =>
                out.rows[d].post_count = 0
    /\ SumOver([d \in 1..7 |-> out.rows[d].post_count], 1..7) = Len(F)

C11_NoEmptyBucket ==
    /\ agg.op = "get_time_series_data" =>
          LET rows == agg.out.rows
          IN  /\ \A r \in 1..Len(rows) : rows[r].post_count >= 1
              /\ \A r, s \in 1..Len(rows) : r < s => rows[r].date < rows[s].date
    /\ (agg.op = "get_keyword_time_series" /\ agg.err = "none") =>
          LET rows == agg.out.rows
          IN  /\ \A r \in 1..Len(rows) : rows[r].count >= 1
              /\ \A r, s \in 1..Len(rows) :
                    (r < s /\ rows[r].keyword = rows[s].keyword) =>
                        rows[r].created_at < rows[s].created_at

(***************************************************************************)
(* analytics.py: get_top_keywords.  A word is a sequence of characters,    *)
(* the result a sequence of [word, count] pairs.                           *)
(***************************************************************************)
Digits == {"0", "1", "2", "3", "4", "5", "6", "7", "8", "9"}

\* [a-zA-Z] and \w
IsAlpha(c) == c \in Range(LowerLetters) \cup Range(UpperLetters)
IsWordChar(c) == IsAlpha(c) \/ c \in Digits \/ c = "_"

\* \b holds just before text[k] (k = Len(text) + 1: at the end of the text)
WordBoundary(text, k) ==
    LET before == k > 1 /\ IsWordChar(text[k - 1])
        after == k <= Len(text) /\ IsWordChar(text[k])
    IN  before # after

RECURSIVE RunEnd(_, _)
\* the first position from i on that holds no letter
RunEnd(text, i) ==
    IF i <= Len(text) /\ IsAlpha(text[i]) THEN RunEnd(text, i + 1) ELSE i

RECURSIVE ReFindAllWords(_, _)
\* re.findall(r'\b[a-zA-Z]{3,}\b', text) from position i on: the greedy run of
\* letters matches only if it ends at a word boundary (a shorter run ends
\* between two letters, where \b fails), and the scan resumes after a match
ReFindAllWords(text, i) ==
    IF i > Len(text) THEN <<>>
    ELSE LET e == RunEnd(text, i)
         IN  IF WordBoundary(text, i) /\ e - i >= 3 /\ WordBoundary(text, e)
             THEN <<SubSeq(text, i, e - 1)>> \o ReFindAllWords(text, e)
             ELSE ReFindAllWords(text, i + 1)

RECURSIVE JoinSpace(_)
\* ' '.join(texts)
JoinSpace(texts) ==
    IF texts = <<>> THEN <<>>
    ELSE IF Len(texts) = 1 THEN texts[1]
    ELSE texts[1] \o <<" ">> \o JoinSpace(Tail(texts))

stop_words ==
    { <<"t", "h", "e">>, <<"a", "n", "d">>, <<"o", "r">>, <<"b", "u", "t">>,
      <<"i", "n">>, <<"o", "n">>, <<"a", "t">>, <<"t", "o">>,
      <<"f", "o", "r">>, <<"o", "f">>, <<"w", "i", "t", "h">>, <<"b", "y">>,
      <<"f", "r", "o", "m">>, <<"u", "p">>, <<"a", "b", "o", "u", "t">>,
      <<"i", "n", "t", "o">>, <<"t", "h", "r", "o", "u", "g", "h">>,
      <<"d", "u", "r", "i", "n", "g">>, <<"b", "e", "f", "o", "r", "e">>,
      <<"a", "f", "t", "e", "r">>, <<"a", "b", "o", "v", "e">>,
      <<"b", "e", "l", "o", "w">>, <<"b", "e", "t", "w", "e", "e", "n">>,
      <<"a", "m", "o", "n", "g">>, <<"t", "h", "i", "s">>,
      <<"t", "h", "a", "t">>, <<"t", "h", "e", "s", "e">>,
      <<"t", "h", "o", "s", "e">>, <<"a", "r", "e">>, <<"w", "a", "s">>,
      <<"w", "e", "r", "e">>, <<"b", "e", "e", "n">>,
      <<"b", "e", "i", "n", "g">>, <<"h", "a", "v", "e">>, <<"h", "a", "s">>,
      <<"h", "a", "d">>, <<"d", "o">>, <<"d", "o", "e", "s">>,
      <<"d", "i", "d">>, <<"w", "i", "l", "l">>, <<"w", "o", "u", "l", "d">>,
      <<"c", "o", "u", "l", "d">>, <<"s", "h", "o", "u", "l", "d">>,
      <<"m", "a", "y">>, <<"m", "i", "g", "h", "t">>, <<"m", "u", "s", "t">>,
      <<"c", "a", "n">>, <<"s", "h", "a", "l", "l">>, <<"n", "o", "t">>,
      <<"w", "h", "a", "t">>, <<"w", "h", "e", "n">>,
      <<"w", "h", "e", "r", "e">>, <<"w", "h", "y">>, <<"h", "o", "w">>,
      <<"a", "l", "l">>, <<"a", "n", "y">>, <<"b", "o", "t", "h">>,
      <<"e", "a", "c", "h">>, <<"f", "e", "w">>, <<"m", "o", "r", "e">>,
      <<"m", "o", "s", "t">>, <<"o", "t", "h", "e", "r">>,
      <<"s", "o", "m", "e">>, <<"s", "u", "c", "h">>, <<"o", "n", "l", "y">>,
      <<"o", "w", "n">>, <<"s", "a", "m", "e">>, <<"s", "o">>,
      <<"t", "h", "a", "n">>, <<"t", "o", "o">>, <<"v", "e", "r", "y">>,
      <<"j", "u", "s", "t">>, <<"n", "o", "w">>, <<"h", "e", "r", "e">>,
      <<"t", "h", "e", "r", "e">>, <<"t", "h", "e", "n">>,
      <<"t", "h", "e", "m">>, <<"t", "h", "e", "y">>,
      <<"t", "h", "e", "i", "r">>, <<"h", "i", "s">>, <<"h", "e", "r">>,
      <<"i", "t", "s">>, <<"o", "u", "r">>, <<"y", "o", "u", "r">>,
      <<"y", "o", "u">>, <<"w", "e">>, <<"h", "e">>, <<"s", "h", "e">>,
      <<"i", "t">>, <<"m", "e">>, <<"h", "i", "m">>, <<"u", "s">>,
      <<"m", "y">>, <<"m", "i", "n", "e">>, <<"y", "o", "u", "r", "s">>,
      <<"o", "u", "r", "s">>, <<"t", "h", "e", "i", "r", "s">> }

\* [word for word in words if word not in stop_words and len(word) > 3]
filtered_words(words) ==
    SelectIdx(words, [i \in 1..Len(words) |->
                         words[i] \notin stop_words /\ Len(words[i]) > 3], 1)

\* the number of occurrences of w in the list
CountIn(words, w) == Cardinality({i \in 1..Len(words) : words[i] = w})

\* the keys of Counter(words): the distinct words in order of first occurrence
CounterKeys(words) ==
    SelectIdx(words, [i \in 1..Len(words) |->
                         \A j \in 1..(i - 1) : words[j] # words[i]], 1)

\* mutant: the pairs in the Counter's insertion order, not sorted by count
most_common_Unsorted(words, n) ==
    LET keys == CounterKeys(words)
    IN  HeadN([k \in 1..Len(keys) |->
                  [word |-> keys[k], count |-> CountIn(words, keys[k])]], n)

RECURSIVE SortedByCount(_)
\* sorted(pairs, key=count, reverse=True): stable, so pairs with equal counts
\* keep their order
SortedByCount(pairs) ==
    IF pairs = <<>> THEN <<>>
    ELSE LET k == CHOOSE i \in 1..Len(pairs) :
                     /\ \A j \in 1..Len(pairs) : pairs[j].count <= pairs[i].count
                     /\ \A j \in 1..(i - 1) : pairs[j].count < pairs[i].count
         IN  <<pairs[k]>> \o
             SortedByCount(SubSeq(pairs, 1, k - 1) \o SubSeq(pairs, k + 1, Len(pairs)))

\* Counter(words).most_common(n)
most_common(words, n) ==
    LET keys == CounterKeys(words)
    IN  HeadN(SortedByCount([k \in 1..Len(keys) |->
                  [word |-> keys[k], count |-> CountIn(words, keys[k])]]), n)

\* the list  filtered_words  that get_top_keywords counts
KeywordWords(F) ==
    filtered_words(ReFindAllWords(
        Lower(JoinSpace([i \in 1..Len(F) |-> F[i].combined_text])), 1))

\* get_top_keywords
get_top_keywords(F, top_n) ==
    IF IsEmpty(F) THEN <<>>
    ELSE most_common(KeywordWords(F), top_n)


(***************************************************************************)
(* The keyword specification: a corpus of at most MaxPosts records drawn   *)
(* from KeywordLines, one apply_filters call on it and get_top_keywords    *)
(* calls on the filtered set.                                              *)
(***************************************************************************)
ExampleTitle ==
    <<"t", "h", "e", " ", "C", "a", "t", " ", "s", "a", "t", " ", "o", "n",
      " ", "T", "H", "E", " ", "m", "a", "t", ",", " ", "c", "a", "t", " ",
      "r", "a", "n">>

KeywordLines ==
    { Line("flat", RawRecord(IdStr("p1"), TsNum(T1), TsAbsent, TxStr(ExampleTitle),
                             TxAbsent, NmStr("a"), NmStr("x"), IntNum(2), IntNum(1))),
      Line("flat", RawRecord(IdStr("p2"), TsNum(T2), TsAbsent,
                             TxStr(<<"C", "a", "t", "s", " ", "d", "a", "t", "a">>),
                             TxStr(<<"m", "o", "r", "e", " ", "d", "a", "t",
                                     "a", ",", " ", "d", "a", "t", "a", "2">>),
                             NmStr("b"), NmStr("y"), IntNum(1), IntNum(3))),
      Line("flat", RawRecord(IdStr("p3"), TsNum(T1Late), TsAbsent,
                             TxStr(<<"m", "o", "o", "n", " ", "d", "o", "o",
                                     "r", " ", "m", "o", "o", "n">>),
                             TxAbsent, NmStr("a"), NmStr("y"), IntNum(0), IntNum(0))),
      Line("enveloped", RawRecord(IdStr("p4"), TsAbsent, TsNum(T3),
                             TxStr(<<"d", "o", "o", "r", " ", "m", "o", "o",
                                     "n", " ", "c", "a", "t">>),
                             TxStr(<<"d", "o", "o", "r">>),
                             NmStr("b"), NmStr("x"), IntNum(3), IntNum(2))) }

KeywordFiles == {[exists |-> TRUE, lines |-> ls] : ls \in SeqsUpTo(KeywordLines, MaxPosts)}

InitKeywords ==
    /\ file \in KeywordFiles
    /\ load_jsonl(file).err = "none"
    /\ raw = [rows |-> load_jsonl(file).rows, dtype |-> load_jsonl(file).dtype]
    /\ preprocess_data(raw).err = "none"
    /\ corpus = preprocess_data(raw).rows
    /\ loadErr = "none"
    /\ pc = "done"
    /\ data = corpus
    /\ fargs = NoFilter
    /\ filtered = <<>>
    /\ ferr = "none"
    /\ agg = NoCall
    /\ sorts = NoSorts
    /\ run = NoRun
    /\ bot = NoBot

CallGetTopKeywords ==
    /\ pc = "filtered"
    /\ \E n \in TopNSamples :
          agg' = Call("get_top_keywords", n, <<>>, "none", get_top_keywords(filtered, n))
    /\ UNCHANGED <<file, pc, raw, corpus, loadErr, data, fargs, filtered, ferr, sorts>>
    /\ UNCHANGED appVars

NextKeywords ==
    \/ CallApplyFilters
    \/ CallGetTopKeywords

SpecKeywords == InitKeywords /\ [][NextKeywords]_vars


(***************************************************************************)
(* Properties of get_top_keywords.                                         *)
(***************************************************************************)
\* the starts of the maximal runs of letters of a text
RunStarts(text) ==
    {i \in 1..Len(text) : IsAlpha(text[i]) /\ (i = 1 \/ ~IsAlpha(text[i - 1]))}

\* the number of maximal runs of letters of the text that spell w
RunsSpelling(text, w) ==
    Cardinality({i \in RunStarts(text) : SubSeq(text, i, RunEnd(text, i) - 1) = w})

\* the keywords as the specification describes them: the lower-cased maximal
\* alphabetic runs of length >= 3 that are not stop words
ClaimedKeywords(F) ==
    {w \in UNION {{SubSeq(F[p].combined_text, i, RunEnd(F[p].combined_text, i) - 1) :
                      i \in RunStarts(F[p].combined_text)} : p \in 1..Len(F)} :
        Len(w) >= 3 /\ w \notin stop_words}

ClaimedCount(F, w) ==
    SumOver([p \in 1..Len(F) |-> RunsSpelling(F[p].combined_text, w)], 1..Len(F))

\* C12: get_top_keywords counts exactly the maximal alphabetic runs of length
\* >= 3 of the lower-cased text that are not stop words: every returned word is
\* such a keyword with its number of occurrences, every such keyword (a
\* 3-letter one included) is returned when top_n allows, and on the text
\* "the Cat sat on THE mat, cat ran" the result starts with ("cat", 2).
C12_CountsAlphabeticRuns ==
    agg.op = "get_top_keywords" =>
        /\ \A k \in 1..Len(agg.out) :
              /\ agg.out[k].word \in ClaimedKeywords(filtered)
              /\ agg.out[k].count = ClaimedCount(filtered, agg.out[k].word)
        /\ agg.args.top_n >= Cardinality(ClaimedKeywords(filtered)) =>
              {agg.out[k].word : k \in 1..Len(agg.out)} = ClaimedKeywords(filtered)
        /\ (Len(filtered) = 1 /\ filtered[1].title = ExampleTitle) =>
              /\ Len(agg.out) >= 1
              /\ agg.out[1] = [word |-> <<"c", "a", "t">>, count |-> 2]

\* the position of the first occurrence of w in the list
FirstIndex(words, w) == Min({i \in 1..Len(words) : words[i] = w})

\* C13: get_top_keywords returns at most top_n pairs, in non-increasing order
\* of count, pairs with equal counts in the order of the keywords' first
\* occurrence in the text, each with the keyword's count, and no keyword left
\* out has a count greater than a returned one.
C13_MostCommonOrder ==
    agg.op = "get_top_keywords" =>
        LET out == agg.out
            words == KeywordWords(filtered)
        IN  /\ Len(out) <= agg.args.top_n
            /\ \A k \in 1..Len(out) :
                  /\ out[k].word \in Range(words)
                  /\ out[k].count = CountIn(words, out[k].word)
            /\ \A k, l \in 1..Len(out) :
                  k < l =>
                      /\ out[k].count >= out[l].count
                      /\ out[k].count = out[l].count =>
                            FirstIndex(words, out[k].word) < FirstIndex(words, out[l].word)
            /\ \A w \in Range(words) \ {out[k].word : k \in 1..Len(out)} :
                  \A k \in 1..Len(out) : CountIn(words, w) <= out[k].count

\* two keywords with equal counts returned, and a keyword left out that is met
\* earlier in the text than both but counted less often
C13_Witness ==
    /\ agg.op = "get_top_keywords"
    /\ Len(agg.out) = 2
    /\ agg.out[1].count = agg.out[2].count
    /\ \E w \in Range(KeywordWords(filtered)) :
          /\ FirstIndex(KeywordWords(filtered), w)
                < FirstIndex(KeywordWords(filtered), agg.out[1].word)
          /\ CountIn(KeywordWords(filtered), w) < agg.out[2].count

(***************************************************************************)
(* Properties of the keyword time series and of the contributors table.    *)
(***************************************************************************)
\* the rows of the keyword time series that carry the keyword
RowsOfKeyword(rows, keyword) ==
    SelectIdx(rows, [r \in 1..Len(rows) |-> rows[r].keyword = keyword], 1)

\* C14: get_keyword_time_series emits rows for a keyword only from the posts
\* whose combined_text contains the lower-cased keyword as a substring: a
\* keyword contained in no post has no row, and the counts of a keyword's rows
\* sum to the number of posts that contain it.
C14_KeywordRowsFromMatches ==
    (agg.op = "get_keyword_time_series" /\ agg.err = "none") =>
        \A k \in 1..Len(agg.args.keywords) :
            LET keyword == agg.args.keywords[k]
                mine == RowsOfKeyword(agg.out.rows, keyword)
                matches == {i \in 1..Len(filtered) :
                               IsSubstring(filtered[i].combined_text, Lower(keyword))}
            IN  /\ matches = {} => mine = <<>>
                /\ SumOver([r \in 1..Len(mine) |-> mine[r].count], 1..Len(mine))
                      = Cardinality(matches)

\* the number of authors of F
AuthorsOf(F) == {F[i].author : i \in 1..Len(F)}

\* C15: with top_n at least the number of authors, the post_count values of
\* get_top_contributors sum to len(F), the post_count of each author being the
\* number of posts of F with that author (a post whose id is null included).
C15_PostCountsSumToLen ==
    (agg.op = "get_top_contributors" /\ agg.args.top_n >= Cardinality(AuthorsOf(filtered))) =>
        LET rows == agg.out.rows
        IN  /\ \A r \in 1..Len(rows) :
                  rows[r].post_count =
                      Cardinality({i \in 1..Len(filtered) :
                                      filtered[i].author = rows[r].author})
            /\ SumOver([r \in 1..Len(rows) |-> rows[r].post_count], 1..Len(rows))
                  = Len(filtered)

\* C16: each percentage is 100 * post_count / len(F) rounded to 2 decimals
\* (held in hundredths: within half a hundredth of the quotient), so the
\* percentages of the full ranking sum to 100.00 within 0.005 per author.
C16_PercentagesSumTo100 ==
    (agg.op = "get_top_contributors" /\ ~IsEmpty(filtered)) =>
        LET rows == agg.out.rows
            total == SumOver([r \in 1..Len(rows) |-> rows[r].percentage], 1..Len(rows))
            diff == IF total >= 10000 THEN total - 10000 ELSE 10000 - total
        IN  /\ \A r \in 1..Len(rows) :
                  LET d == rows[r].percentage * Len(filtered) - rows[r].post_count * 10000
                  IN  2 * d <= Len(filtered) /\ -2 * d <= Len(filtered)
            /\ agg.args.top_n >= Cardinality(AuthorsOf(filtered)) =>
                  2 * diff <= Len(rows)

(***************************************************************************)
(* analytics.py: the author-subreddit graph and its statistics.  A         *)
(* networkx Graph is [node, edges]: node maps each node key to its         *)
(* attributes, edges is the set of edges [u, v, weight, post_count], at    *)
(* most one between two nodes.  A node key is the f-string's prefix and    *)
(* the raw name it is followed by (U+1F464 is the bust pictograph of the   *)
(* author prefix, U+1F4CB the clipboard of the subreddit prefix).          *)
(***************************************************************************)
EmptyGraph == [node |-> <<>>, edges |-> {}]

\* f"<U+1F464> {row['author']}"
AuthorKey(author) == [prefix |-> "U+1F464 ", name |-> author]

\* mutant: the subreddit's key carries the author prefix
SubredditKey_AuthorPrefix(subreddit) == [prefix |-> "U+1F464 ", name |-> subreddit]

\* f"<U+1F4CB> r/{row['subreddit']}"
SubredditKey(subreddit) == [prefix |-> "U+1F4CB r/", name |-> subreddit]

\* G.add_node(n, **attrs): a new node, or new attributes for a node there is
add_node(G, n, attrs) ==
    [G EXCEPT !.node = [k \in (DOMAIN G.node) \cup {n} |->
                           IF k = n THEN attrs ELSE G.node[k]]]

\* G.add_edge(u, v, weight=w, post_count=w) between two nodes of G: a new
\* edge, or new attributes for the edge there is between them
add_edge(G, u, v, w) ==
    [G EXCEPT !.edges = {e \in G.edges : {e.u, e.v} # {u, v}}
                            \cup {[u |-> u, v |-> v, weight |-> w, post_count |-> w]}]

\* .sort_values(ascending=False).head(n).index.tolist(), with the order the
\* sort produced
TopList(sizes, order, n) == HeadN([i \in 1..Len(sizes) |-> sizes[order[i]].name], n)

\* the rows of F whose author and subreddit are in the two lists
filtered_top_data(F, top_author_list, top_subreddit_list) ==
    SelectIdx(F, [i \in 1..Len(F) |->
                     /\ F[i].author \in Range(top_author_list)
                     /\ F[i].subreddit \in Range(top_subreddit_list)], 1)

\* mutant: every pair that occurs gets the count 1
author_subreddit_counts_Presence(T) ==
    LET authors == SortedByRank({T[i].author : i \in 1..Len(T)})
        subreddits == SortedByRank({T[i].subreddit : i \in 1..Len(T)})
        cell(a, s) ==
            [author |-> authors[a], subreddit |-> subreddits[s],
             post_count |-> IF \E i \in 1..Len(T) : /\ T[i].author = authors[a]
                                                    /\ T[i].subreddit = subreddits[s]
                            THEN 1 ELSE 0]
        all == [k \in 1..(Len(authors) * Len(subreddits)) |->
                   cell(((k - 1) \div Len(subreddits)) + 1, ((k - 1) % Len(subreddits)) + 1)]
    IN  SelectIdx(all, [k \in 1..Len(all) |-> all[k].post_count >= 1], 1)

\* groupby(['author', 'subreddit']).size() restricted to post_count >= 1: one
\* row per pair that occurs, in the order of the sorted (author, subreddit)
author_subreddit_counts(T) ==
    LET authors == SortedByRank({T[i].author : i \in 1..Len(T)})
        subreddits == SortedByRank({T[i].subreddit : i \in 1..Len(T)})
        cell(a, s) ==
            [author |-> authors[a], subreddit |-> subreddits[s],
             post_count |-> Cardinality({i \in 1..Len(T) :
                                            /\ T[i].author = authors[a]
                                            /\ T[i].subreddit = subreddits[s]})]
        all == [k \in 1..(Len(authors) * Len(subreddits)) |->
                   cell(((k - 1) \div Len(subreddits)) + 1, ((k - 1) % Len(subreddits)) + 1)]
    IN  SelectIdx(all, [k \in 1..Len(all) |-> all[k].post_count >= 1], 1)

RECURSIVE AddRows(_, _)
\* the loop over author_subreddit_counts.iterrows()
AddRows(G, rows) ==
    IF rows = <<>> THEN G
    ELSE LET row == Head(rows)
             author == AuthorKey(row.author)
             subreddit == SubredditKey(row.subreddit)
             G1 == add_node(G, author, [node_type |-> "author", label |-> row.author])
             G2 == add_node(G1, subreddit,
                            [node_type |-> "subreddit",
                             label |-> [prefix |-> "r/", name |-> row.subreddit]])
         IN  AddRows(add_edge(G2, author, subreddit, row.post_count), Tail(rows))

\* mutant: the top subreddits are those of the posts of the top authors
build_top_author_subreddit_network_Narrowed(F, top_authors, top_subreddits, aorder, sorder) ==
    IF IsEmpty(F) THEN EmptyGraph
    ELSE LET top_author_list == TopList(GroupSizes(F, "author"), aorder, top_authors)
             byTop == SelectIdx(F, [i \in 1..Len(F) |->
                                       F[i].author \in Range(top_author_list)], 1)
             sizes == GroupSizes(byTop, "subreddit")
             top_subreddit_list ==
                 TopList(sizes, CHOOSE o \in SortOrders(sizes) : TRUE, top_subreddits)
             T == filtered_top_data(F, top_author_list, top_subreddit_list)
         IN  IF IsEmpty(T) THEN EmptyGraph
             ELSE AddRows(EmptyGraph, author_subreddit_counts(T))

\* build_top_author_subreddit_network, with the orders the two sorts produced
build_top_author_subreddit_network(F, top_authors, top_subreddits, aorder, sorder) ==
    IF IsEmpty(F) THEN EmptyGraph
    ELSE LET top_author_list == TopList(GroupSizes(F, "author"), aorder, top_authors)
             top_subreddit_list ==
                 TopList(GroupSizes(F, "subreddit"), sorder, top_subreddits)
             T == filtered_top_data(F, top_author_list, top_subreddit_list)
         IN  IF IsEmpty(T) THEN EmptyGraph
             ELSE AddRows(EmptyGraph, author_subreddit_counts(T))

\* graph.number_of_nodes(), graph.number_of_edges()
number_of_nodes(G) == Cardinality(DOMAIN G.node)
number_of_edges(G) == Cardinality(G.edges)

\* the nodes adjacent to n
Neighbors(G, n) ==
    {m \in (DOMAIN G.node) \ {n} : \E e \in G.edges : {e.u, e.v} = {n, m}}

Zero == [num |-> 0, den |-> 1]

\* mutant: the density of a directed graph, E / (N (N - 1))
density_Directed(G) ==
    LET n == number_of_nodes(G)
        m == number_of_edges(G)
    IN  IF m = 0 \/ n <= 1 THEN Zero
        ELSE [num |-> m, den |-> n * (n - 1)]

\* nx.density(G) of an undirected graph, as a fraction
density(G) ==
    LET n == number_of_nodes(G)
        m == number_of_edges(G)
    IN  IF m = 0 \/ n <= 1 THEN Zero
        ELSE [num |-> 2 * m, den |-> n * (n - 1)]

RECURSIVE ComponentOf(_, _)
\* the nodes reached from the set S
ComponentOf(G, S) ==
    LET next == S \cup UNION {Neighbors(G, n) : n \in S}
    IN  IF next = S THEN S ELSE ComponentOf(G, next)

\* nx.number_connected_components(G)
number_connected_components(G) ==
    Cardinality({ComponentOf(G, {n}) : n \in DOMAIN G.node})

\* mutant: every pair of neighbours of n counts as a triangle
clustering_EveryPair(G, n) ==
    LET nb == Neighbors(G, n)
        d == Cardinality(nb)
        triangles == Cardinality({p \in SUBSET nb : Cardinality(p) = 2})
    IN  IF d < 2 THEN Zero ELSE [num |-> 2 * triangles, den |-> d * (d - 1)]

\* nx.clustering(G, n): the fraction of the pairs of neighbours of n that are
\* adjacent to each other, 0 for a node of degree below 2
clustering(G, n) ==
    LET nb == Neighbors(G, n)
        d == Cardinality(nb)
        triangles == Cardinality({p \in SUBSET nb :
                                     /\ Cardinality(p) = 2
                                     /\ \E e \in G.edges : {e.u, e.v} = p})
    IN  IF d < 2 THEN Zero ELSE [num |-> 2 * triangles, den |-> d * (d - 1)]

RECURSIVE SumFractions(_, _)
\* the sum of the fractions f[n] over the nodes of S
SumFractions(f, S) ==
    IF S = {} THEN Zero
    ELSE LET n == CHOOSE x \in S : TRUE
             rest == SumFractions(f, S \ {n})
         IN  [num |-> f[n].num * rest.den + rest.num * f[n].den,
              den |-> f[n].den * rest.den]

\* nx.average_clustering(G) of a graph with a node
average_clustering(G) ==
    LET total == SumFractions([n \in DOMAIN G.node |-> clustering(G, n)], DOMAIN G.node)
    IN  [num |-> total.num, den |-> total.den * number_of_nodes(G)]

\* get_network_stats
get_network_stats(G) ==
    IF number_of_nodes(G) = 0
    THEN [nodes |-> 0, edges |-> 0, density |-> Zero, avg_clustering |-> Zero,
          connected_components |-> 0]
    ELSE [nodes |-> number_of_nodes(G),
          edges |-> number_of_edges(G),
          density |-> density(G),
          connected_components |-> number_connected_components(G),
          avg_clustering |-> average_clustering(G)]


(***************************************************************************)
(* The network specification: a corpus of at most MaxNetworkPosts records  *)
(* drawn from NetworkLines, one apply_filters call on it, calls that build *)
(* the graph of the filtered set and calls of get_network_stats on the     *)
(* graph built last.                                                       *)
(***************************************************************************)
MaxNetworkPosts == 3

NetworkRecord(id, author, subreddit) ==
    RawRecord(IdStr(id), TsNum(T1), TsAbsent, TxStr(<<"a">>), TxAbsent,
              NmStr(author), NmStr(subreddit), IntNum(1), IntNum(0))

NetworkLines ==
    { Line("flat", NetworkRecord("p1", "a", "x")),
      Line("flat", NetworkRecord("p2", "a", "x")),
      Line("flat", NetworkRecord("p3", "b", "y")),
      Line("flat", NetworkRecord("p4", "x", "y")) }

NetworkFiles ==
    {[exists |-> TRUE, lines |-> ls] : ls \in SeqsUpTo(NetworkLines, MaxNetworkPosts)}

\* the filter specifications tried: none, a community, a keyword no post has
NetworkFilterSamples ==
    { FilterArgs(<<>>, <<>>, "All", "All"),
      FilterArgs(<<>>, <<>>, "All", "x"),
      FilterArgs(<<>>, <<>>, "All", "y"),
      FilterArgs(<<"z">>, <<>>, "All", "All") }

\* the values tried for top_authors and top_subreddits, the defaults included
TopAuthorsSamples == {1, 2, 15}
TopSubredditsSamples == {1, 10}

InitNetwork ==
    /\ file \in NetworkFiles
    /\ load_jsonl(file).err = "none"
    /\ raw = [rows |-> load_jsonl(file).rows, dtype |-> load_jsonl(file).dtype]
    /\ preprocess_data(raw).err = "none"
    /\ corpus = preprocess_data(raw).rows
    /\ loadErr = "none"
    /\ pc = "done"
    /\ data = corpus
    /\ fargs = NoFilter
    /\ filtered = <<>>
    /\ ferr = "none"
    /\ agg = NoCall
    /\ sorts = NoSorts
    /\ run = NoRun
    /\ bot = NoBot

CallBuildNetwork ==
    /\ pc = "filtered"
    /\ \E ta \in TopAuthorsSamples, ts \in TopSubredditsSamples :
          agg' = [op |-> "build_top_author_subreddit_network",
                  args |-> [top_authors |-> ta, top_subreddits |-> ts],
                  err |-> "none",
                  out |-> build_top_author_subreddit_network(filtered, ta, ts,
                                                             sorts.authors,
                                                             sorts.subreddits)]
    /\ UNCHANGED <<file, pc, raw, corpus, loadErr, data, fargs, filtered, ferr, sorts>>
    /\ UNCHANGED appVars

\* get_network_stats on the graph built by the last call
CallGetNetworkStats ==
    /\ agg.op = "build_top_author_subreddit_network"
    /\ agg' = [op |-> "get_network_stats", args |-> [graph |-> agg.out],
               err |-> "none", out |-> get_network_stats(agg.out)]
    /\ UNCHANGED <<file, pc, raw, corpus, loadErr, data, fargs, filtered, ferr, sorts>>
    /\ UNCHANGED appVars

CallApplyFiltersNetwork ==
    ApplyFiltersFrom(NetworkFilterSamples, {"authors", "subreddits"})

NextNetwork ==
    \/ CallApplyFiltersNetwork
    \/ CallBuildNetwork
    \/ CallGetNetworkStats

SpecNetwork == InitNetwork /\ [][NextNetwork]_vars

(***************************************************************************)
(* Properties of the graph and of its statistics.                          *)
(***************************************************************************)
\* the number of posts of F by the author in the subreddit
PostsOfPair(F, author, subreddit) ==
    Cardinality({i \in 1..Len(F) : F[i].author = author /\ F[i].subreddit = subreddit})

\* C17: the weight of every edge is the exact number of posts of the filtered
\* set by that author in that community, no edge has weight 0, and there is at
\* most one edge per (author, community) pair.
C17_EdgeWeights ==
    agg.op = "build_top_author_subreddit_network" =>
        LET G == agg.out
        IN  /\ \A e \in G.edges :
                  /\ e.weight = PostsOfPair(filtered, e.u.name, e.v.name)
                  /\ e.post_count = e.weight
                  /\ e.weight # 0
            /\ \A e1, e2 \in G.edges :
                  (e1.u.name = e2.u.name /\ e1.v.name = e2.v.name) => e1 = e2

\* a graph of two edges or more, one of them of weight 2
C17_Witness ==
    /\ agg.op = "build_top_author_subreddit_network"
    /\ Cardinality(agg.out.edges) >= 2
    /\ \E e \in agg.out.edges : e.weight = 2

\* T is a choice of the n most frequent values of the column: it has n values
\* (all of them when there are fewer) and none left out occurs more often
\* than one chosen
IsTop(F, col, n, T) ==
    LET values == {F[i][col] : i \in 1..Len(F)}
        count(v) == Cardinality({i \in 1..Len(F) : F[i][col] = v})
    IN  /\ T \subseteq values
        /\ Cardinality(T) = IF n < Cardinality(values) THEN n ELSE Cardinality(values)
        /\ \A t \in T : \A v \in values \ T : count(t) >= count(v)

\* C18: there is an edge between author a and community c exactly when a is
\* among the top-K authors by post count of the whole filtered set, c is among
\* its top-M communities (each chosen independently of the other) and a post
\* of a in c exists; so there are at most K author nodes and M community nodes.
C18_EdgeIffTopAndPost ==
    agg.op = "build_top_author_subreddit_network" =>
        LET G == agg.out
            K == agg.args.top_authors
            M == agg.args.top_subreddits
            F == filtered
        IN  /\ \E TA \in SUBSET {F[i].author : i \in 1..Len(F)} :
                  \E TS \in SUBSET {F[i].subreddit : i \in 1..Len(F)} :
                      /\ IsTop(F, "author", K, TA)
                      /\ IsTop(F, "subreddit", M, TS)
                      /\ {<<e.u.name, e.v.name>> : e \in G.edges}
                            = {p \in TA \X TS : PostsOfPair(F, p[1], p[2]) >= 1}
            /\ Cardinality({n \in DOMAIN G.node : G.node[n].node_type = "author"}) <= K
            /\ Cardinality({n \in DOMAIN G.node : G.node[n].node_type = "subreddit"}) <= M

\* a graph with an edge, built from a filtered set one of whose posts is in a
\* community of the graph but by an author who is not among the top K
C18_Witness ==
    /\ agg.op = "build_top_author_subreddit_network"
    /\ agg.out.edges # {}
    /\ \E i \in 1..Len(filtered) :
          /\ \E e \in agg.out.edges : e.v.name = filtered[i].subreddit
          /\ \A e \in agg.out.edges : e.u.name # filtered[i].author

\* C19: the graph is bipartite and has no isolated node: every edge joins an
\* author node and a community node, no edge is a self-loop, every node has
\* degree >= 1, and an author and a community of the same raw name are two
\* nodes (there are as many nodes as authors plus communities on the edges).
C19_Bipartite ==
    agg.op = "build_top_author_subreddit_network" =>
        LET G == agg.out
        IN  /\ \A e \in G.edges :
                  /\ e.u \in DOMAIN G.node /\ e.v \in DOMAIN G.node
                  /\ e.u # e.v
                  /\ G.node[e.u].node_type = "author"
                  /\ G.node[e.v].node_type = "subreddit"
            /\ \A n \in DOMAIN G.node : \E e \in G.edges : n \in {e.u, e.v}
            /\ Cardinality(DOMAIN G.node)
                  = Cardinality({e.u.name : e \in G.edges})
                      + Cardinality({e.v.name : e \in G.edges})

\* a graph with an author node and a community node of the same raw name
C19_Witness ==
    /\ agg.op = "build_top_author_subreddit_network"
    /\ \E n, m \in DOMAIN agg.out.node :
          /\ agg.out.node[n].node_type = "author"
          /\ agg.out.node[m].node_type = "subreddit"
          /\ n.name = m.name

RECURSIVE ConnectedWithin(_, _, _, _)
\* a path of at most k edges leads from node u to node v
ConnectedWithin(G, u, v, k) ==
    \/ u = v
    \/ /\ k > 0
       /\ \E e \in G.edges :
             \/ e.u = u /\ ConnectedWithin(G, e.v, v, k - 1)
             \/ e.v = u /\ ConnectedWithin(G, e.u, v, k - 1)

\* C20: get_network_stats returns nodes = N, edges = E, the number of
\* connected components, and density = 2E / (N (N - 1)) when N >= 2 and 0
\* when N < 2; for the empty graph the five statistics are 0, without error.
C20_NetworkStats ==
    agg.op = "get_network_stats" =>
        LET G == agg.args.graph
            N == Cardinality(DOMAIN G.node)
            E == Cardinality(G.edges)
            classes == {{v \in DOMAIN G.node : ConnectedWithin(G, u, v, N)} :
                           u \in DOMAIN G.node}
        IN  /\ agg.err = "none"
            /\ agg.out.nodes = N
            /\ agg.out.edges = E
            /\ agg.out.connected_components = Cardinality(classes)
            /\ N >= 2 => agg.out.density.num * N * (N - 1) = 2 * E * agg.out.density.den
            /\ N < 2 => agg.out.density.num = 0
            /\ N = 0 => /\ agg.out.nodes = 0 /\ agg.out.edges = 0
                        /\ agg.out.density.num = 0
                        /\ agg.out.avg_clustering.num = 0
                        /\ agg.out.connected_components = 0

\* the statistics of a graph of two components, one of them with two edges
C20_Witness ==
    /\ agg.op = "get_network_stats"
    /\ agg.out.nodes = 5
    /\ agg.out.edges = 3
    /\ agg.out.connected_components = 2
    /\ agg.out.density.num # 0

C22_SummaryStats ==
    agg.op = "get_summary_stats" =>
        LET F == filtered
            idx == 1..Len(F)
            out == agg.out
        IN  IF F = <<>>
            THEN /\ out.total_posts = 0 /\ out.unique_authors = 0
                 /\ out.platforms = 0 /\ out.total_comments = 0
                 /\ out.avg_score.num = 0
                 /\ out.date_range.kind = "No data"
            ELSE /\ out.total_posts = Len(F)
                 /\ out.unique_authors = Cardinality({F[i].author : i \in idx})
                 /\ out.platforms = Cardinality({F[i].platform : i \in idx})
                 /\ out.total_comments = SumOver([i \in idx |-> F[i].num_comments], idx)
                 /\ out.avg_score.num * Len(F)
                       = SumOver([i \in idx |-> F[i].score], idx) * out.avg_score.den
                 /\ out.date_range.kind = "range"
                 /\ \E i \in idx : F[i].date = out.date_range.lo
                 /\ \E i \in idx : F[i].date = out.date_range.hi
                 /\ \A i \in idx : /\ out.date_range.lo <= F[i].date
                                   /\ F[i].date <= out.date_range.hi

\* the statistics of two posts of one author
C22_Witness ==
    /\ agg.op = "get_summary_stats"
    /\ agg.out.total_posts = 2
    /\ agg.out.unique_authors = 1
    /\ agg.out.total_comments > 0

(***************************************************************************)
(* Properties of the normaliser _extract_post_fields, checked on the       *)
(* records of the file once load_jsonl has run.                            *)
(***************************************************************************)
\* the lines whose record is handed to the normaliser as a key-value mapping
MappingLines(lines) ==
    {i \in 1..Len(lines) : /\ lines[i].kind \in {"flat", "enveloped"}
                           /\ "mapping" \notin DOMAIN lines[i].rec}

\* a numeric epoch value: a JSON number, or a string that holds a number
UsableEpoch(v) == v.k \in {"num", "numstr"}

\* the created_at the specification describes: from created_utc when it holds
\* a usable value, otherwise from created, otherwise null
ClaimedCreatedAt(rec) ==
    IF UsableEpoch(rec.created_utc) THEN FromTimestamp(rec.created_utc.n)
    ELSE IF UsableEpoch(rec.created) THEN FromTimestamp(rec.created.n)
    ELSE NoneDT

\* C23: the normaliser takes created_at from created_utc when that holds a
\* usable value, otherwise from created, otherwise null: every numeric epoch
\* value (0 included) gives a timestamp, a present non-numeric value gives
\* null, and no timestamp value makes the normaliser raise or reject the record.
C23_TimestampResolution ==
    pc # "start" =>
        \A i \in MappingLines(file.lines) :
            LET rec == file.lines[i].rec
                e == extract_post_fields(rec)
            IN  /\ e.raised = "none"
                /\ ~ConcatRaises(rec) => e.ok
                /\ e.ok => e.post.created_at = ClaimedCreatedAt(rec)

\* the lines whose JSON object, or whose value under "data", reaches the normaliser
NormalisedLines(lines) ==
    {i \in 1..Len(lines) : lines[i].kind \in {"flat", "enveloped"}}

\* C24: for every raw record, a key-value mapping or anything else found under
\* the "data" key, _extract_post_fields returns a post or None and raises
\* nothing to its caller; in a returned post a missing author is "unknown", a
\* missing score or num_comments is 0, and a missing url, title, text or
\* community is the empty string.
C24_NormaliserTotal ==
    pc # "start" =>
        \A i \in NormalisedLines(file.lines) :
            LET rec == file.lines[i].rec
                e == extract_post_fields(rec)
            IN  /\ e.raised = "none"
                /\ e.ok =>
                      /\ rec.author.k = "absent" => e.post.author = "unknown"
                      /\ rec.score.k = "absent" => e.post.score = 0
                      /\ rec.num_comments.k = "absent" => e.post.num_comments = 0
                      /\ "url" \notin DOMAIN rec => e.post.url = ""
                      /\ rec.title.k = "absent" => e.post.title = <<>>
                      /\ rec.selftext.k = "absent" => e.post.text = <<>>
                      /\ rec.subreddit.k = "absent" => e.post.subreddit = ""

\* a file with a value under "data" that is not a mapping, a record whose title
\* is a number, and a record without author, score, url, title and community
\* that gives a post
C24_Witness ==
    /\ pc # "start"
    /\ \E i \in NormalisedLines(file.lines) : file.lines[i].rec = NotAMapping
    /\ \E i \in MappingLines(file.lines) : ConcatRaises(file.lines[i].rec)
    /\ \E i \in MappingLines(file.lines) :
          /\ file.lines[i].rec.author.k = "absent"
          /\ file.lines[i].rec.title.k = "absent"
          /\ extract_post_fields(file.lines[i].rec).ok

(***************************************************************************)
(* Properties of the ranking of the contributors.                          *)
(***************************************************************************)
\* C25: get_top_contributors returns min(top_n, number of distinct authors)
\* rows, one per author, in non-increasing order of the post_count column, and
\* no author left out has a post_count greater than that of an author returned.
C25_TopContributors ==
    agg.op = "get_top_contributors" =>
        LET rows == agg.out.rows
            n == Cardinality(AuthorsOf(filtered))
            counts == AuthorCounts(filtered)
            returned == {rows[r].author : r \in 1..Len(rows)}
        IN  /\ Len(rows) = IF agg.args.top_n < n THEN agg.args.top_n ELSE n
            /\ Cardinality(returned) = Len(rows)
            /\ \A r \in 1..Len(rows) : rows[r] \in Range(counts)
            /\ \A r, q \in 1..Len(rows) : r < q => rows[r].post_count >= rows[q].post_count
            /\ \A c \in 1..Len(counts) :
                  counts[c].author \notin returned =>
                      \A r \in 1..Len(rows) : counts[c].post_count <= rows[r].post_count

\* the ranking cut to one row, of a filtered set with two authors of different
\* post counts
C25_Witness ==
    /\ agg.op = "get_top_contributors"
    /\ agg.args.top_n = 1
    /\ Len(agg.out.rows) = 1
    /\ \E c \in 1..Len(AuthorCounts(filtered)) :
          AuthorCounts(filtered)[c].post_count < agg.out.rows[1].post_count

(***************************************************************************)
(* Properties of the records without an id.                                *)
(***************************************************************************)
\* the lines of the file whose record is normalised and carries no id field
IdLess(lines) == {i \in Usable(lines) : lines[i].rec.id.k = "absent"}

\* the first of them in file order
FirstIdLess(lines) ==
    CHOOSE i \in IdLess(lines) : \A j \in IdLess(lines) : i <= j

\* C26: every record without an id field receives the id "" ; the corpus holds
\* at most one post that comes from such a record, and the one it holds comes
\* from the first of them in file order.
C26_IdLessRecords ==
    pc = "done" =>
        /\ \A i \in IdLess(file.lines) : PostOfLine(file.lines, i).id = IdStr("")
        /\ Cardinality({k \in 1..Len(corpus) :
                           \E i \in IdLess(file.lines) :
                               corpus[k] = Derive(PostOfLine(file.lines, i))}) <= 1
        /\ \A k \in 1..Len(corpus) :
              (\E i \in IdLess(file.lines) : corpus[k].id = PostOfLine(file.lines, i).id)
                  => corpus[k] = Derive(PostOfLine(file.lines, FirstIdLess(file.lines)))

\* a file with two different records without an id, whose first is in the corpus
C26_Witness ==
    /\ pc = "done"
    /\ \E i, j \in IdLess(file.lines) :
          /\ i < j
          /\ PostOfLine(file.lines, i) # PostOfLine(file.lines, j)
          /\ \E k \in 1..Len(corpus) : corpus[k] = Derive(PostOfLine(file.lines, i))

(***************************************************************************)
(* Properties of the clustering of the author-subreddit graph.             *)
(***************************************************************************)
\* C27: for every graph that build_top_author_subreddit_network produces,
\* get_network_stats reports an avg_clustering of 0.
C27_ClusteringZero ==
    agg.op = "get_network_stats" =>
        /\ agg.err = "none"
        /\ agg.out.avg_clustering.num = 0

\* the statistics of a graph in which a node has two neighbours
C27_Witness ==
    /\ agg.op = "get_network_stats"
    /\ \E n \in DOMAIN agg.args.graph.node :
          Cardinality(Neighbors(agg.args.graph, n)) >= 2

(***************************************************************************)
(* The specification of main (src/app.py): the runs of the script on a     *)
(* loaded corpus.  A run reads the widgets, filters the corpus, computes   *)
(* the sections in order and ends at the chatbot; the names it binds are   *)
(* in run.locals.  Streamlit starts a new run at every interaction.        *)
(***************************************************************************)
\* the defaults of build_top_author_subreddit_network, which main relies on
DefaultTopAuthors == 15
DefaultTopSubreddits == 10

MainLines ==
    { Line("flat", NetworkRecord("p1", "a", "x")),
      Line("flat", NetworkRecord("p3", "b", "y")),
      Line("flat", RawRecord(IdStr("p5"), TsNum(T1), TsAbsent, TxStr(<<"a">>), TxAbsent,
                             NmStr("a"), NmNull, IntNum(1), IntNum(0))),
      Line("flat", RawRecord(IdStr("p6"), TsNum(T2), TsAbsent, TxStr(<<"b">>), TxAbsent,
                             NmStr("b"), NmNull, IntNum(1), IntNum(0))) }

MainFiles ==
    {[exists |-> TRUE, lines |-> ls] : ls \in SeqsUpTo(MainLines, MaxNetworkPosts)}

\* the options of the subreddit selectbox: "All" and the subreddits of the
\* corpus, as value_counts lists them (it drops the null values)
subreddit_options(rows) == {"All"} \cup ({rows[i].subreddit : i \in 1..Len(rows)} \ {None})

\* the values of the date_input: the range from the first to the last date of
\* the corpus (its default), or its first date alone
date_input(rows) ==
    LET dates == {DateOf(rows[i].created_at) : i \in 1..Len(rows)}
        min_date == CHOOSE d \in dates : \A e \in dates : d <= e
        max_date == CHOOSE d \in dates : \A e \in dates : d >= e
    IN  {<<min_date, max_date>>, <<min_date>>}

\* the values of the widgets: a keyword or none, a date range, a subreddit among
\* the options
MainFilterSamples(rows) ==
    {FilterArgs(k, d, "All", s) :
        k \in {<<>>, <<"b">>}, d \in date_input(rows), s \in subreddit_options(rows)}

InitMain ==
    /\ file \in MainFiles
    /\ load_jsonl(file).err = "none"
    /\ raw = [rows |-> load_jsonl(file).rows, dtype |-> load_jsonl(file).dtype]
    /\ preprocess_data(raw).err = "none"
    /\ corpus = preprocess_data(raw).rows
    /\ corpus # <<>>
    /\ loadErr = "none"
    /\ pc = "done"
    /\ data = corpus
    /\ fargs = NoFilter
    /\ filtered = <<>>
    /\ ferr = "none"
    /\ agg = NoCall
    /\ sorts = NoSorts
    /\ run = NoRun
    /\ bot = NoBot

\* a run starts: the widgets are read and apply_filters is called; the run
\* returns when nothing matches
MainApplyFilters ==
    /\ run.pc \in {"idle", "returned", "raised", "done"}
    /\ \E a \in MainFilterSamples(data) :
          LET r == apply_filters(data, a)
          IN  /\ fargs' = a
              /\ ferr' = r.err
              /\ filtered' = r.rows
              /\ sorts' \in SortsOf(r.rows, {"contributors", "authors", "subreddits"})
              /\ run' = [pc |-> IF r.err # "none" THEN "raised"
                                ELSE IF IsEmpty(r.rows) THEN "returned"
                                ELSE "sections",
                         locals |-> IF r.err # "none" THEN {} ELSE {"filtered_data"},
                         network_stats |-> <<>>,
                         err |-> r.err]
    /\ agg' = NoCall
    /\ UNCHANGED <<file, pc, raw, corpus, loadErr, data, bot>>

\* the sections from the summary statistics to the top contributors
MainSections ==
    /\ run.pc = "sections"
    /\ run' = [run EXCEPT !.pc = "network",
                          !.locals = @ \cup {"summary_stats", "time_series_data",
                                             "rhythm_data", "top_keywords",
                                             "top_contributors"}]
    /\ agg' = Call("get_top_contributors", 10, <<>>, "none",
                   get_top_contributors(filtered, 10, sorts.contributors))
    /\ UNCHANGED <<file, pc, raw, corpus, loadErr, data, fargs, filtered, ferr, sorts, bot>>

\* the network section: network_stats is assigned only when the graph has a node
NetworkSection(r, G) ==
    IF number_of_nodes(G) > 0
    THEN [r EXCEPT !.pc = "export",
                   !.locals = @ \cup {"network_graph", "network_stats"},
                   !.network_stats = get_network_stats(G)]
    ELSE [r EXCEPT !.pc = "export", !.locals = @ \cup {"network_graph"}]

MainNetwork ==
    /\ run.pc = "network"
    /\ LET G == build_top_author_subreddit_network(
                    filtered, DefaultTopAuthors, DefaultTopSubreddits,
                    sorts.authors, sorts.subreddits)
       IN  /\ run' = NetworkSection(run, G)
           /\ agg' = [op |-> "build_top_author_subreddit_network",
                      args |-> [top_authors |-> DefaultTopAuthors,
                                top_subreddits |-> DefaultTopSubreddits],
                      err |-> "none", out |-> G]
    /\ UNCHANGED <<file, pc, raw, corpus, loadErr, data, fargs, filtered, ferr, sorts, bot>>

\* the names the summary report reads
ReportReads == {"summary_stats", "top_contributors", "top_keywords", "network_stats"}

\* the export section: the report is generated when its button was pressed
MainExport ==
    /\ run.pc = "export"
    /\ \E report \in BOOLEAN :
          run' = IF report /\ ~(ReportReads \subseteq run.locals)
                 THEN [run EXCEPT !.pc = "raised", !.err = "NameError"]
                 ELSE [run EXCEPT !.pc = "chatbot",
                                  !.locals = @ \cup (IF report THEN {"report"} ELSE {})]
    /\ UNCHANGED <<file, pc, raw, corpus, loadErr, data, fargs, filtered, ferr, agg,
                   sorts, bot>>

\* the chatbot is handed network_stats if 'network_stats' in locals() else {}
MainChatbot ==
    /\ run.pc = "chatbot"
    /\ run' = [run EXCEPT !.pc = "done"]
    /\ UNCHANGED <<file, pc, raw, corpus, loadErr, data, fargs, filtered, ferr, agg,
                   sorts, bot>>

NextMain ==
    \/ MainApplyFilters
    \/ MainSections
    \/ MainNetwork
    \/ MainExport
    \/ MainChatbot

SpecMain == InitMain /\ [][NextMain]_vars

\* C28: in every run of main that reaches the export section with a non-empty
\* filtered set, network_stats has been computed, also when the graph has no
\* nodes; generating the summary report never reads an undefined name.
C28_ReportReadsDefined ==
    /\ (run.pc = "export" /\ ~IsEmpty(filtered)) => "network_stats" \in run.locals
    /\ run.err # "NameError"

(***************************************************************************)
(* Properties of the date criterion of apply_filters.                      *)
(***************************************************************************)
\* the posts that the keyword, platform and subreddit criteria keep
KeptByOtherCriteria(rows, a) ==
    SelectIdx(rows,
              [i \in 1..Len(rows) |->
                  /\ a.keyword # <<>> => StrContains(rows[i].combined_text, Lower(a.keyword))
                  /\ a.platform \notin {"", "All"} => rows[i].platform = a.platform
                  /\ a.subreddit \notin {"", "All"} => rows[i].subreddit = a.subreddit],
              1)

\* C29: when the date range is null or does not hold exactly two dates,
\* apply_filters removes no post on account of its date: it returns the posts
\* that the other criteria keep; when it holds two dates, only posts dated
\* within them are returned.
C29_DateOnlyForTwoDates ==
    pc = "filtered" =>
        /\ Len(fargs.date_range) # 2 => filtered = KeptByOtherCriteria(data, fargs)
        /\ Len(fargs.date_range) = 2 =>
              \A i \in 1..Len(filtered) :
                  /\ DateOf(filtered[i].created_at) >= fargs.date_range[1]
                  /\ DateOf(filtered[i].created_at) <= fargs.date_range[2]

\* a single date and another criterion were given; the other criterion removed
\* a post, and a post of another date than the one given was returned
C29_Witness ==
    /\ pc = "filtered"
    /\ Len(fargs.date_range) = 1
    /\ fargs.keyword # <<>>
    /\ Len(filtered) < Len(data)
    /\ \E i \in 1..Len(filtered) : DateOf(filtered[i].created_at) # fargs.date_range[1]

(***************************************************************************)
(* The chatbot specification (src/gemini_chatbot.py): a GeminiChatbot is   *)
(* constructed, then initialize and chat are called in any order, at most  *)
(* MaxCalls times.  The remote library either answers or raises at each of *)
(* its calls; the outcome of a call is drawn from the ways it can go.      *)
(***************************************************************************)
MaxCalls == 4

\* how the library calls of initialize can go: genai.configure raises,
\* GenerativeModel raises, start_chat raises, or all three return
InitializeOutcomes == {"configure_raises", "model_raises", "start_chat_raises", "ok"}

\* how the library calls of chat can go: send_message raises, reading
\* response.text raises, or both return
ChatOutcomes == {"send_raises", "text_raises", "ok"}

Returned(op, kind) == [op |-> op, kind |-> kind, raised |-> "none"]

\* mutant: initialized is set before the session is started
initialize_FlagFirst(b, outcome) ==
    LET n == b.calls + 1
        c == [b EXCEPT !.calls = n]
    IN  IF ~b.available THEN [c EXCEPT !.ret = Returned("initialize", "False")]
        ELSE IF outcome \in {"configure_raises", "model_raises"}
        THEN [c EXCEPT !.ret = Returned("initialize", "False")]
        ELSE IF outcome = "start_chat_raises"
        THEN [c EXCEPT !.model = n, !.initialized = TRUE,
                       !.ret = Returned("initialize", "False")]
        ELSE [c EXCEPT !.model = n, !.chat_session = n, !.initialized = TRUE,
                       !.created = @ \cup {n}, !.ret = Returned("initialize", "True")]

\* GeminiChatbot.initialize: the chatbot after the call, its return value in ret
initialize(b, outcome) ==
    LET n == b.calls + 1
        c == [b EXCEPT !.calls = n]
    IN  IF ~b.available THEN [c EXCEPT !.ret = Returned("initialize", "False")]
        ELSE IF outcome \in {"configure_raises", "model_raises"}
        THEN [c EXCEPT !.ret = Returned("initialize", "False")]
        ELSE IF outcome = "start_chat_raises"
        THEN [c EXCEPT !.model = n, !.ret = Returned("initialize", "False")]
        ELSE [c EXCEPT !.model = n, !.chat_session = n, !.initialized = TRUE,
                       !.created = @ \cup {n}, !.ret = Returned("initialize", "True")]

\* GeminiChatbot.chat: the chatbot after the call, its return value in ret; a
\* message reaches the remote session when send_message is called on a session
chat(b, outcome) ==
    LET c == [b EXCEPT !.calls = @ + 1]
    IN  IF ~b.initialized THEN [c EXCEPT !.ret = Returned("chat", "not_initialized_string")]
        ELSE IF b.chat_session = 0
        THEN [c EXCEPT !.ret = Returned("chat", "error_string")]
        ELSE IF outcome = "ok"
        THEN [c EXCEPT !.sent = Append(@, b.chat_session),
                       !.ret = Returned("chat", "response")]
        ELSE [c EXCEPT !.sent = Append(@, b.chat_session),
                       !.ret = Returned("chat", "error_string")]

\* GeminiChatbot(): the fields are set, then initialize is called when the
\* environment holds GEMINI_API_KEY
Constructed(available, has_key, outcome) ==
    LET fresh == [NoBot EXCEPT !.available = available]
    IN  IF has_key THEN initialize(fresh, outcome) ELSE fresh

InitChatbot ==
    /\ file = MissingFile
    /\ pc = "start"
    /\ raw = NoDataFrame
    /\ corpus = <<>>
    /\ loadErr = "none"
    /\ data = <<>>
    /\ fargs = NoFilter
    /\ filtered = <<>>
    /\ ferr = "none"
    /\ agg = NoCall
    /\ sorts = NoSorts
    /\ run = NoRun
    /\ bot \in {Constructed(available, has_key, outcome) :
                   available \in BOOLEAN, has_key \in BOOLEAN,
                   outcome \in InitializeOutcomes}

CallInitialize ==
    /\ bot.calls < MaxCalls
    /\ \E outcome \in InitializeOutcomes : bot' = initialize(bot, outcome)
    /\ UNCHANGED <<file, pc, raw, corpus, loadErr, data, fargs, filtered, ferr, agg,
                   sorts, run>>

CallChat ==
    /\ bot.calls < MaxCalls
    /\ \E outcome \in ChatOutcomes : bot' = chat(bot, outcome)
    /\ UNCHANGED <<file, pc, raw, corpus, loadErr, data, fargs, filtered, ferr, agg,
                   sorts, run>>

NextChatbot == CallInitialize \/ CallChat

SpecChatbot == InitChatbot /\ [][NextChatbot]_vars

\* C30: after any sequence of initialize and chat calls, initialized is true
\* only if a successful initialize has created a model and the chat session;
\* no call raises; a step sends a message to the remote session only if it is
\* a chat call made while initialized was true, and a chat call that is made
\* while initialized is false, or whose remote call fails, returns an error
\* string.
C30_ChatbotSafety ==
    /\ [](/\ bot.initialized =>
                /\ bot.created # {}
                /\ bot.model # 0
                /\ bot.chat_session \in bot.created
          /\ bot.ret.raised = "none")
    /\ [][/\ bot'.sent # bot.sent =>
                /\ bot.initialized
                /\ bot'.ret.op = "chat"
                /\ bot'.sent = Append(bot.sent, bot.chat_session)
          /\ (bot'.ret.op = "chat" /\ bot'.calls # bot.calls /\ ~bot.initialized) =>
                /\ bot'.sent = bot.sent
                /\ bot'.ret.kind = "not_initialized_string"
          /\ (bot'.ret.op = "chat" /\ bot'.calls # bot.calls) =>
                bot'.ret.kind \in {"response", "not_initialized_string", "error_string"}
         ]_vars

\* an initialize that failed after an earlier one succeeded left initialized
\* true, and a chat call then sent a message whose remote call failed
C30_Witness ==
    /\ bot.initialized
    /\ bot.model \notin bot.created
    /\ bot.sent # <<>>
    /\ bot.ret = Returned("chat", "error_string")


====
